---- MODULE Spec2Model ----
(***************************************************************************)
(* Heritage: the dead man's switch vault of apps/contract/sources/vault.move *)
(* as a state machine.  One LegacyBox shared object, the ledger clock, the  *)
(* event stream and the coins paid out; every entry function is one atomic  *)
(* transaction that either commits or aborts with no effect.                *)
(***************************************************************************)
EXTENDS Integers, Sequences, FiniteSets, TLC

\* ------------------------------------------------------------------ bounds
\* Largest value of the unsigned word (u64 in the contract), scaled down so
\* that both an expired lock and an overflowing sum are reachable.
MAX_U64 == 2
\* Largest total of coins that is deposited into the vault.
MaxBalance == 2
\* Largest number of events kept in the event stream.
MaxEvents == 3
\* The length of a nonce, scaled down from nacl's 24 bytes.
NonceLength == 1
\* The width in bits of the field in which keys are split into shares.
Bits == 3

\* ------------------------------------------------------- program constants
ENotOwner == 0
ENotBeneficiary == 1
EUnlockTimeNotReached == 2
EAlreadyClaimed == 3
EInvalidShares == 4

\* The addresses of the test module: OWNER, BENEFICIARY, STRANGER.
ADDRS == {"A", "B", "C"}
\* The sender of create_vault and the beneficiary it names, as in the tests.
Creators == {"A"}
Heirs == {"B"}
\* The addresses handed to update_beneficiary: the owner itself (owner and
\* beneficiary coincide) and the first beneficiary again.
NewHeirs == {"A", "B"}
\* The senders of cancel_legacy, add_funds, update_beneficiary and
\* update_unlock_time: the owner and one address that is not the owner.  The
\* stranger sends im_alive and claim_legacy, as in the tests.
Managers == {"A", "B"}
\* The durations handed to create_vault: none, the shortest, and the longest
\* a u64 holds.
Durations == {0, 1, MAX_U64}
\* The durations handed to update_unlock_time: immediately claimable and
\* never claimable.
NewDurations == {0, MAX_U64}
\* The wrapped shares (share_3, share_4, share_5) and blob id handed to
\* create_vault.
ShareInputs == {<<"share_3", "share_4", "share_5">>}
BlobIds == {"blob_id"}
\* The id of the one LegacyBox object of the model.
VAULT_ID == 1

VARIABLES
    now,        \* clock.timestamp_ms()
    status,     \* "none" (not created), "shared" (exists), "deleted"
    vault,      \* the fields of the LegacyBox
    events,     \* the event stream, in order of emission
    received,   \* coins transferred to each address by public_transfer
    deposited,  \* coins moved into the vault by create_vault and add_funds
    last,       \* the last transaction or view call and how it ended
    aesKey,     \* crypto engine: the symmetric key in hand
    shares,     \* crypto engine: the five shares of the key
    secretNote,      \* crypto engine: the text given to encryptPayload
    encryptedBlob,   \* crypto engine: the output of encryptPayload
    plainShare,      \* crypto engine: the share given to encryptShareForHeir
    heirKeyPair,     \* crypto engine: the output of generateKeyPair
    encryptedShare,  \* crypto engine: the output of encryptShareForHeir
    payload,         \* crypto engine: the output of createLegacyPayload
    page,            \* CreateLegacyPage: its state and what handleCreate has sent where
    claimPage,       \* ClaimPage: its state
    call        \* crypto engine: the last function call and what it gave

ledger_vars == <<now, status, vault, events, received, deposited, last>>
engine_vars == <<aesKey, shares, secretNote, encryptedBlob, plainShare, heirKeyPair, encryptedShare, payload, page, claimPage, call>>
vars == <<now, status, vault, events, received, deposited, last, aesKey, shares, secretNote, encryptedBlob, plainShare, heirKeyPair, encryptedShare, payload, page, claimPage, call>>

\* ------------------------------------------------------------ the LegacyBox
EmptyBox ==
    [id |-> VAULT_ID, owner |-> "A", beneficiary |-> "A", unlock_time_ms |-> 0,
     last_heartbeat |-> 0, encrypted_blob_id |-> "blob_id",
     locked_shares |-> <<>>, balance |-> 0]

\* ----------------------------------------------- how a transaction finishes
\* result: "ok", "abort" (assert! with code), "arithmetic" (u64 overflow in
\* the VM), "missing" (the object is not on the ledger), "tick" (no call).
Outcome(op, sender, result, code) ==
    [op |-> op, sender |-> sender, result |-> result, code |-> code,
     ret_bool |-> FALSE, ret_u64 |-> 0, ret_strings |-> <<>>, ret_address |-> "A"]

NoCall == Outcome("tick", "A", "tick", 0)

\* An aborted transaction commits nothing.
Fails(op, sender, result, code) ==
    /\ last' = Outcome(op, sender, result, code)
    /\ UNCHANGED engine_vars
    /\ UNCHANGED <<now, status, vault, events, received, deposited>>

Succeeded(op) == last.op = op /\ last.result = "ok"
Aborted(op, code) == last.op = op /\ last.result = "abort" /\ last.code = code

\* u64 addition aborts the transaction when the sum does not fit.
Overflows(a, b) == a + b > MAX_U64

\* vault.last_heartbeat + vault.unlock_time_ms
UnlockAt(v) == v.last_heartbeat + v.unlock_time_ms

\* The time guard of claim_legacy and can_claim.
TimeGuard(v, current_time) == current_time > UnlockAt(v)

\* ctx.sender() == vault.owner
IsOwner_OrBeneficiary(v, sender) == sender = v.owner \/ sender = v.beneficiary
IsOwner(v, sender) == sender = v.owner

\* sender == vault.beneficiary
IsBeneficiary_OrOwner(v, sender) == sender = v.beneficiary \/ sender = v.owner
IsBeneficiary(v, sender) == sender = v.beneficiary

\* balance::split(&mut vault.balance, amount): what stays in the vault.
SplitBalance_Keep(value, amount) == value
SplitBalance_Partial(value, amount) == value - (amount - 1)
SplitBalance(value, amount) == value - amount

\* balance::join(&mut vault.balance, coin::into_balance(coin))
JoinBalance_Replace(value, coin) == coin
JoinBalance_DropsCoin(value, coin) == value
JoinBalance(value, coin) == value + coin

\* The shares vector built by three push_back calls.
BuildShares_Reversed(share_3, share_4, share_5) == Append(Append(Append(<<>>, share_5), share_4), share_3)
BuildShares(share_3, share_4, share_5) == Append(Append(Append(<<>>, share_3), share_4), share_5)

Emit(e) == events' = Append(events, e)

\* ============================================================ crypto engine
\* The functions of the crypto engine (utils/crypto-engine.ts).  Random
\* choices (key bytes, polynomial coefficients) are inputs of the actions.

\* secrets.share(hexKey, 5, 3) and the length check of recoverKey.
NUM_SHARES == 5
THRESHOLD == 3
MIN_SHARES == 3

\* ---------------------------------------------- GF(2^Bits) of secrets.js
\* secrets.js works in GF(2^bits) with exp and log tables built from a
\* primitive polynomial; bits is scaled down from 8.
Size == 2 ^ Bits
MaxShares == Size - 1
Field == 0..MaxShares
\* primitivePolynomials[bits] for bits = 1..5
PrimitivePolynomial == <<0, 1, 3, 3, 5>>[Bits]

RECURSIVE Xor(_, _)
Xor(a, b) ==
    IF a = 0 THEN b
    ELSE IF b = 0 THEN a
    ELSE (((a % 2) + (b % 2)) % 2) + (2 * Xor(a \div 2, b \div 2))

RECURSIVE ExpAt(_)
ExpAt(i) ==
    IF i = 0 THEN 1
    ELSE LET x == 2 * ExpAt(i - 1)
         IN IF x >= Size THEN Xor(x, PrimitivePolynomial) % Size ELSE x

exps == [i \in 0..MaxShares |-> ExpAt(i)]
\* logs[x] = i is assigned for i = 0 .. size-1 in turn: the last one stays.
logs == [x \in 1..MaxShares |-> CHOOSE i \in 0..MaxShares : exps[i] = x /\ \A j \in 0..MaxShares : exps[j] = x => j <= i]

\* horner(x, coeffs): the polynomial with coefficients coeffs at x.
RECURSIVE HornerFrom(_, _, _, _)
HornerFrom(x, coeffs, i, fx) ==
    IF i = 0 THEN fx
    ELSE HornerFrom(x, coeffs, i - 1,
                    IF fx = 0 THEN coeffs[i]
                    ELSE Xor(exps[(logs[x] + logs[fx]) % MaxShares], coeffs[i]))

horner(x, coeffs) == HornerFrom(x, coeffs, Len(coeffs), 0)

\* lagrange(at, x, y): the interpolating polynomial through (x[i], y[i]) at
\* the point at.
RECURSIVE LagrangeProduct(_, _, _, _, _)
LagrangeProduct(at, x, i, j, product) ==
    IF j > Len(x) THEN product
    ELSE IF j = i THEN LagrangeProduct(at, x, i, j + 1, product)
    ELSE IF at = x[j] THEN -1
    ELSE LagrangeProduct(at, x, i, j + 1,
            (product + logs[Xor(at, x[j])] - logs[Xor(x[i], x[j])] + MaxShares) % MaxShares)

RECURSIVE LagrangeSum(_, _, _, _, _)
LagrangeSum(at, x, y, i, sum) ==
    IF i > Len(x) THEN sum
    ELSE IF y[i] = 0 THEN LagrangeSum(at, x, y, i + 1, sum)
    ELSE LET product == LagrangeProduct(at, x, i, 1, logs[y[i]])
         IN LagrangeSum(at, x, y, i + 1,
                        IF product = -1 THEN sum ELSE Xor(sum, exps[product]))

lagrange(at, x, y) == LagrangeSum(at, x, y, 1, 0)

\* --------------------------------------------------- strings and shares
RECURSIVE Reverse(_)
Reverse(seq) == IF seq = <<>> THEN <<>> ELSE Append(Reverse(Tail(seq)), Head(seq))

\* encodeBase64 / decodeBase64: bytes as text and back.
encodeBase64(bytes) == [b64 |-> bytes]
decodeBase64(str) == str.b64

\* secrets.str2hex / hex2str: the character codes of a string, last
\* character first, and back.
str2hex(str) == Reverse(str.b64)
hex2str(hex) == [b64 |-> Reverse(hex)]

\* The random coefficients of one split: for each chunk of the secret, the
\* threshold - 1 higher coefficients.
Coefficients == [1..(THRESHOLD - 1) -> Field]

\* secrets.share(secret, numShares, threshold): share id gets, for every
\* chunk of the secret, the value at id of a polynomial of degree
\* threshold - 1 whose constant term is the chunk.  rnd[c] are the random
\* coefficients of chunk c.
share(secret, numShares, threshold, rnd) ==
    [id \in 1..numShares |->
        [bits |-> Bits, id |-> id,
         data |-> [c \in 1..Len(secret) |->
                     horner(id, <<secret[c]>> \o [k \in 1..(threshold - 1) |-> rnd[c][k]])]]]

\* secrets.combine(shares): shares with an id already seen are dropped, then
\* every chunk is interpolated at 0.
RECURSIVE DistinctIds(_, _)
DistinctIds(shs, seen) ==
    IF shs = <<>> THEN <<>>
    ELSE IF Head(shs).id \in seen THEN DistinctIds(Tail(shs), seen)
    ELSE <<Head(shs)>> \o DistinctIds(Tail(shs), seen \cup {Head(shs).id})

combine(shs) ==
    LET used == DistinctIds(shs, {})
        x == [i \in 1..Len(used) |-> used[i].id]
    IN [c \in 1..Len(used[1].data) |->
          lagrange(0, x, [i \in 1..Len(used) |-> used[i].data[c]])]

\* -------------------------------------------------- splitKey, recoverKey
\* splitKey(aesKey) with the random coefficients rnd.
splitKeyWith_Threshold2(key, rnd) == share(str2hex(key), NUM_SHARES, THRESHOLD - 1, rnd)
splitKeyWith(key, rnd) == share(str2hex(key), NUM_SHARES, THRESHOLD, rnd)

\* What a call of an engine function gave: a value, or a thrown Error.
Gave(fn, args, value) == [fn |-> fn, args |-> args, ok |-> TRUE, value |-> value, error |-> ""]
Threw(fn, args, message) == [fn |-> fn, args |-> args, ok |-> FALSE, value |-> <<>>, error |-> message]
NoEngineCall == Gave("none", <<>>, <<>>)
NoKey == [b64 |-> <<>>]

\* recoverKey(shares)
recoverKeyOf_FirstTwo(shs) == IF Len(shs) < MIN_SHARES THEN Threw("recoverKey", <<>>, "Minimum 3 shares required to recover key") ELSE Gave("recoverKey", <<>>, hex2str(combine(SubSeq(shs, 1, 2))))
recoverKeyOf_NoMinimum(shs) == IF shs = <<>> THEN Threw("recoverKey", <<>>, "Minimum 3 shares required to recover key") ELSE Gave("recoverKey", <<>>, hex2str(combine(shs)))
recoverKeyOf(shs) == IF Len(shs) < MIN_SHARES THEN Threw("recoverKey", <<>>, "Minimum 3 shares required to recover key") ELSE Gave("recoverKey", <<>>, hex2str(combine(shs)))

\* ------------------------------------------------- NaCl, as ideal boxes
\* nacl.secretbox / nacl.secretbox.open (XSalsa20-Poly1305): the box opens
\* only under the key and nonce it was sealed with, and only if no byte of
\* it was changed; otherwise open gives null.
secretbox(msg, nonce, key) == [sealed |-> msg, under |-> key, with |-> nonce, intact |-> TRUE]
Opened(msg) == [null |-> FALSE, msg |-> msg]
Null == [null |-> TRUE, msg |-> <<>>]
secretbox_open(box, nonce, key) == IF box.intact /\ box.under = key /\ box.with = nonce THEN Opened(box.sealed) ELSE Null

\* nacl.box.keyPair(): the public key of a secret key, and the key that a
\* secret key and the other side's public key share.
PublicKeyOf(secretKey) == [pub |-> secretKey]
box_before(theirPublicKey, mySecretKey) == {theirPublicKey.pub, mySecretKey}
box(msg, nonce, theirPublicKey, mySecretKey) == secretbox(msg, nonce, box_before(theirPublicKey, mySecretKey))
box_open(c, nonce, theirPublicKey, mySecretKey) == secretbox_open(c, nonce, box_before(theirPublicKey, mySecretKey))

\* nacl.randomBytes(nonceLength)
NonceBytes == {0, 1}
Nonces == [1..NonceLength -> NonceBytes]

NoBlob == [b64 |-> <<>>]
NoKeyPair == [publicKey |-> encodeBase64(PublicKeyOf(0)), secretKey |-> encodeBase64(0)]
NoPackage == [json |-> <<>>]

\* ------------------------------------------ encryptPayload, decryptPayload
\* encryptPayload(text, aesKey), its random nonce being nonce: the nonce is
\* put in front of the ciphertext.
encryptPayloadWith(text, key, nonce) ==
    LET keyBytes == decodeBase64(key)
        ciphertext == <<secretbox(text, nonce, keyBytes)>>
        combined == nonce \o ciphertext
    IN encodeBase64(combined)

\* decryptPayload(encryptedString, aesKey)
decryptPayloadOf_NoNullCheck(encryptedString, key) == LET combined == decodeBase64(encryptedString) IN Gave("decryptPayload", <<>>, combined[NonceLength + 1].sealed)
decryptPayloadOf(encryptedString, key) ==
    LET keyBytes == decodeBase64(key)
        combined == decodeBase64(encryptedString)
        nonce == SubSeq(combined, 1, NonceLength)
        ciphertext == SubSeq(combined, NonceLength + 1, Len(combined))
        decrypted == secretbox_open(ciphertext[1], nonce, keyBytes)
    IN IF decrypted.null
         THEN Threw("decryptPayload", <<>>, "Decryption failed - invalid key or corrupted data")
         ELSE Gave("decryptPayload", <<>>, decrypted.msg)

\* ----------------------------- encryptShareForHeir, decryptShareAsHeir
\* JSON.stringify / JSON.parse of the package.
JSON_stringify(package) == [json |-> package]
JSON_parse(str) == str.json

\* encryptShareForHeir(share, heirPublicKey), the ephemeral secret key and
\* the nonce being its random choices.
encryptShareForHeirWith(shr, heirPublicKey, ephemeralSecretKey, nonce) ==
    LET ciphertext == box(shr, nonce, heirPublicKey, ephemeralSecretKey)
    IN JSON_stringify([ciphertext |-> encodeBase64(ciphertext),
                       nonce |-> encodeBase64(nonce),
                       ephemeralPublicKey |-> encodeBase64(PublicKeyOf(ephemeralSecretKey))])

\* decryptShareAsHeir(encryptedPackage, heirSecretKey)
decryptShareAsHeirOf_NoNullCheck(encryptedPackage, heirSecretKey) == Gave("decryptShareAsHeir", <<>>, decodeBase64(JSON_parse(encryptedPackage).ciphertext).sealed)
decryptShareAsHeirOf(encryptedPackage, heirSecretKey) ==
    LET package == JSON_parse(encryptedPackage)
        ciphertext == decodeBase64(package.ciphertext)
        nonce == decodeBase64(package.nonce)
        ephemeralPublicKey == decodeBase64(package.ephemeralPublicKey)
        decrypted == box_open(ciphertext, nonce, ephemeralPublicKey, heirSecretKey)
    IN IF decrypted.null
         THEN Threw("decryptShareAsHeir", <<>>, "Failed to decrypt share - invalid key or corrupted data")
         ELSE Gave("decryptShareAsHeir", <<>>, decrypted.msg)

\* ------------------------------------- createLegacyPayload, claimLegacy
NoPayload == [heirShare |-> <<>>, walrusShare |-> <<>>, contractShares |-> <<>>, encryptedBlob |-> NoBlob]

\* createLegacyPayload(secretNote, heirPublicKey).  Its random choices: the
\* key bytes, the nonce of the payload, the coefficients of the split, and
\* for each of the three wrapped shares an ephemeral secret key and a nonce.
createLegacyPayloadWith(note, heirPublicKey, bytes, nonce, rnd, seeds) ==
    LET key == encodeBase64(bytes)
        blob == encryptPayloadWith(note, key, nonce)
        shs == splitKeyWith(key, rnd)
        contractShares ==
            <<encryptShareForHeirWith(shs[3], heirPublicKey, seeds[1].eph, seeds[1].nonce),
              encryptShareForHeirWith(shs[4], heirPublicKey, seeds[2].eph, seeds[2].nonce),
              encryptShareForHeirWith(shs[5], heirPublicKey, seeds[3].eph, seeds[3].nonce)>>
    IN [heirShare |-> shs[1], walrusShare |-> shs[2],
        contractShares |-> contractShares, encryptedBlob |-> blob]

\* Array.prototype.slice(start, end) for 0 <= start <= end.
slice(seq, start, end) == SubSeq(seq, start + 1, IF Len(seq) < end THEN Len(seq) ELSE end)

\* claimLegacy(heirShare, walrusShare, encryptedContractShares, heirSecretKey,
\* encryptedBlob); walrusShare is <<>> for null and <<share>> otherwise.  An
\* Error thrown by a function it calls is thrown by claimLegacy.
claimLegacyOf_TakesTwo(heirShare, walrusShare, encryptedContractShares, heirSecretKey, encBlob) ==
    LET decrypted == [i \in 1..Len(encryptedContractShares) |->
                        decryptShareAsHeirOf(encryptedContractShares[i], heirSecretKey)]
    IN IF \E i \in 1..Len(decrypted) : ~decrypted[i].ok
         THEN Threw("claimLegacy", <<>>, "Failed to decrypt share - invalid key or corrupted data")
       ELSE LET decryptedContractShares == [i \in 1..Len(decrypted) |-> decrypted[i].value]
                availableShares == <<heirShare>> \o walrusShare \o decryptedContractShares
                sharesToUse == slice(availableShares, 0, 2)
            IN IF Len(sharesToUse) < 2
                 THEN Threw("claimLegacy", <<>>, "Not enough shares to recover the secret")
               ELSE LET recovered == recoverKeyOf(sharesToUse)
                    IN IF ~recovered.ok
                         THEN Threw("claimLegacy", <<>>, recovered.error)
                       ELSE LET note == decryptPayloadOf(encBlob, recovered.value)
                            IN IF ~note.ok
                                 THEN Threw("claimLegacy", <<>>, note.error)
                                 ELSE Gave("claimLegacy", <<>>, note.value)

\* A blob that cannot be decrypted gives the empty string.
claimLegacyOf_EmptyOnFailure(heirShare, walrusShare, encryptedContractShares, heirSecretKey, encBlob) ==
    LET decrypted == [i \in 1..Len(encryptedContractShares) |->
                        decryptShareAsHeirOf(encryptedContractShares[i], heirSecretKey)]
    IN IF \E i \in 1..Len(decrypted) : ~decrypted[i].ok
         THEN Threw("claimLegacy", <<>>, "Failed to decrypt share - invalid key or corrupted data")
       ELSE LET decryptedContractShares == [i \in 1..Len(decrypted) |-> decrypted[i].value]
                availableShares == <<heirShare>> \o walrusShare \o decryptedContractShares
                sharesToUse == slice(availableShares, 0, 3)
            IN IF Len(sharesToUse) < 3
                 THEN Threw("claimLegacy", <<>>, "Not enough shares to recover the secret")
               ELSE LET recovered == recoverKeyOf(sharesToUse)
                    IN IF ~recovered.ok
                         THEN Threw("claimLegacy", <<>>, recovered.error)
                       ELSE LET note == decryptPayloadOf(encBlob, recovered.value)
                            IN IF ~note.ok
                                 THEN Gave("claimLegacy", <<>>, <<>>)
                                 ELSE Gave("claimLegacy", <<>>, note.value)

claimLegacyOf(heirShare, walrusShare, encryptedContractShares, heirSecretKey, encBlob) ==
    LET decrypted == [i \in 1..Len(encryptedContractShares) |->
                        decryptShareAsHeirOf(encryptedContractShares[i], heirSecretKey)]
    IN IF \E i \in 1..Len(decrypted) : ~decrypted[i].ok
         THEN Threw("claimLegacy", <<>>, "Failed to decrypt share - invalid key or corrupted data")
       ELSE LET decryptedContractShares == [i \in 1..Len(decrypted) |-> decrypted[i].value]
                availableShares == <<heirShare>> \o walrusShare \o decryptedContractShares
                sharesToUse == slice(availableShares, 0, 3)
            IN IF Len(sharesToUse) < 3
                 THEN Threw("claimLegacy", <<>>, "Not enough shares to recover the secret")
               ELSE LET recovered == recoverKeyOf(sharesToUse)
                    IN IF ~recovered.ok
                         THEN Threw("claimLegacy", <<>>, recovered.error)
                       ELSE LET note == decryptPayloadOf(encBlob, recovered.value)
                            IN IF ~note.ok
                                 THEN Threw("claimLegacy", <<>>, note.error)
                                 ELSE Gave("claimLegacy", <<>>, note.value)

\* -------------------------------------------------- CreateLegacyPage
\* localStorage of the browser: the item names the two pages use, each with
\* <<>> for null or <<value>>.
ItemNames == {"heritage_demo_secret", "heritage_demo_public", "suilegacy_demo_secret"}
NoItems == [key \in ItemNames |-> <<>>]
setItem(storage, key, value) == [storage EXCEPT ![key] = <<value>>]
getItem(storage, key) == storage[key]

\* The page before handleCreate: step is the page's step, at the await
\* handleCreate has reached, walrus what blob storage has been sent,
\* localStorage the items of the browser, encryptedShares the locals encryptedShare3,
\* encryptedShare4, encryptedShare5, vault the share arguments of the
\* create_vault call, heirShare the share the page shows for the heir.
NoPage == [step |-> "input", at |-> "idle", error |-> FALSE, walrus |-> {}, localStorage |-> NoItems, encryptedShares |-> <<>>, vault |-> <<>>, heirShare |-> <<>>]

\* The two setItem calls of handleCreate for the demo keypair of the heir.
persistDemoKeyPair(storage, keyPair) == setItem(setItem(storage, "heritage_demo_secret", keyPair.secretKey), "heritage_demo_public", keyPair.publicKey)

\* ----------------------------------------------------------- ClaimPage
\* The page as mounted: a fresh demo keypair, and the stored demo secret
\* read from localStorage.  vaultInfo, heirShare, heirSecretKey and
\* storedDemoSecret are <<>> for null or the empty string; at is the await
\* a handler has reached, claimTx the state of the claim transaction's
\* promise, recovered the local aesKey of handleReconstruct.
ClaimPage(storage, demoKeyPair) ==
    [step |-> "search", at |-> "idle", vaultInfo |-> <<>>, loading |-> FALSE, error |-> "",
     decryptedSecret |-> <<>>, heirShare |-> <<>>, heirSecretKey |-> <<>>,
     demoKeyPair |-> demoKeyPair, storedDemoSecret |-> getItem(storage, "suilegacy_demo_secret"),
     claimTx |-> "none", recovered |-> NoKey]
NoClaimPage == ClaimPage(NoItems, NoKeyPair)

EngineInit ==
    /\ aesKey = NoKey
    /\ shares = <<>>
    /\ secretNote = <<>>
    /\ encryptedBlob = NoBlob
    /\ plainShare = <<>>
    /\ heirKeyPair = NoKeyPair
    /\ encryptedShare = NoPackage
    /\ payload = NoPayload
    /\ page = NoPage
    /\ claimPage = NoClaimPage
    /\ call = NoEngineCall

\* ------------------------------------------------------------------- Init
Init ==
    /\ now = 0
    /\ status = "none"
    /\ vault = EmptyBox
    /\ events = <<>>
    /\ received = [a \in ADDRS |-> 0]
    /\ deposited = 0
    /\ last = NoCall
    /\ EngineInit

\* The ledger clock advances.
Tick ==
    /\ now < MAX_U64
    /\ now' = now + 1
    /\ last' = NoCall
    /\ UNCHANGED engine_vars
    /\ UNCHANGED <<status, vault, events, received, deposited>>

\* ------------------------------------------------------------ create_vault
create_vault(sender, beneficiary, unlock_time_ms, blob_id, share_3, share_4, share_5, coin) ==
    /\ status = "none"
    /\ Len(events) < MaxEvents
    /\ coin <= MaxBalance
    /\ LET owner == sender
           current_time == now
           locked_shares == BuildShares(share_3, share_4, share_5)
       IN /\ vault' = [id |-> VAULT_ID,
                       owner |-> owner,
                       beneficiary |-> beneficiary,
                       unlock_time_ms |-> unlock_time_ms,
                       last_heartbeat |-> current_time,
                       encrypted_blob_id |-> blob_id,
                       locked_shares |-> locked_shares,
                       balance |-> coin]
          /\ Emit([type |-> "VaultCreated", vault_id |-> VAULT_ID, owner |-> owner,
                   beneficiary |-> beneficiary, unlock_time_ms |-> unlock_time_ms])
    /\ status' = "shared"
    /\ deposited' = deposited + coin
    /\ last' = Outcome("create_vault", sender, "ok", 0)
    /\ UNCHANGED engine_vars
    /\ UNCHANGED <<now, received>>

\* ---------------------------------------------------------------- im_alive
im_alive_NoReset(sender) ==
    /\ status # "none"
    /\ IF status = "deleted"
         THEN Fails("im_alive", sender, "missing", 0)
       ELSE IF ~IsOwner(vault, sender)
         THEN Fails("im_alive", sender, "abort", ENotOwner)
       ELSE LET current_time == now
            IN /\ Len(events) < MaxEvents
               /\ Emit([type |-> "HeartbeatUpdated", vault_id |-> vault.id,
                        timestamp |-> current_time])
               /\ last' = Outcome("im_alive", sender, "ok", 0)
               /\ UNCHANGED engine_vars
               /\ UNCHANGED <<now, status, vault, received, deposited>>

im_alive_StaleEvent(sender) ==
    /\ status # "none"
    /\ IF status = "deleted"
         THEN Fails("im_alive", sender, "missing", 0)
       ELSE IF ~IsOwner(vault, sender)
         THEN Fails("im_alive", sender, "abort", ENotOwner)
       ELSE LET current_time == now
            IN /\ Len(events) < MaxEvents
               /\ vault' = [vault EXCEPT !.last_heartbeat = current_time]
               /\ Emit([type |-> "HeartbeatUpdated", vault_id |-> vault.id,
                        timestamp |-> vault.last_heartbeat])
               /\ last' = Outcome("im_alive", sender, "ok", 0)
               /\ UNCHANGED engine_vars
               /\ UNCHANGED <<now, status, received, deposited>>

im_alive(sender) ==
    /\ status # "none"
    /\ IF status = "deleted"
         THEN Fails("im_alive", sender, "missing", 0)
       ELSE IF ~IsOwner(vault, sender)
         THEN Fails("im_alive", sender, "abort", ENotOwner)
       ELSE LET current_time == now
            IN /\ Len(events) < MaxEvents
               /\ vault' = [vault EXCEPT !.last_heartbeat = current_time]
               /\ Emit([type |-> "HeartbeatUpdated", vault_id |-> vault.id,
                        timestamp |-> current_time])
               /\ last' = Outcome("im_alive", sender, "ok", 0)
               /\ UNCHANGED engine_vars
               /\ UNCHANGED <<now, status, received, deposited>>

\* ------------------------------------------------------------ claim_legacy
\* The record is built after the split and carries what is left.
claim_legacy_EmitsAfterSplit(sender) ==
    /\ status # "none"
    /\ IF status = "deleted"
         THEN Fails("claim_legacy", sender, "missing", 0)
       ELSE IF ~IsBeneficiary(vault, sender)
         THEN Fails("claim_legacy", sender, "abort", ENotBeneficiary)
       ELSE IF Overflows(vault.last_heartbeat, vault.unlock_time_ms)
         THEN Fails("claim_legacy", sender, "arithmetic", 0)
       ELSE IF ~TimeGuard(vault, now)
         THEN Fails("claim_legacy", sender, "abort", EUnlockTimeNotReached)
       ELSE LET amount == vault.balance
            IN /\ Len(events) < MaxEvents
               /\ IF amount > 0
                    THEN /\ vault' = [vault EXCEPT !.balance = SplitBalance(vault.balance, amount)]
                         /\ received' = [received EXCEPT ![sender] = @ + amount]
                    ELSE UNCHANGED <<vault, received>>
               /\ Emit([type |-> "LegacyClaimed", beneficiary |-> sender,
                        blob_id |-> vault.encrypted_blob_id,
                        shares |-> vault.locked_shares,
                        amount |-> vault.balance - amount])
               /\ last' = Outcome("claim_legacy", sender, "ok", 0)
               /\ UNCHANGED engine_vars
               /\ UNCHANGED <<now, status, deposited>>
claim_legacy(sender) ==
    /\ status # "none"
    /\ IF status = "deleted"
         THEN Fails("claim_legacy", sender, "missing", 0)
       ELSE IF ~IsBeneficiary(vault, sender)
         THEN Fails("claim_legacy", sender, "abort", ENotBeneficiary)
       ELSE IF Overflows(vault.last_heartbeat, vault.unlock_time_ms)
         THEN Fails("claim_legacy", sender, "arithmetic", 0)
       ELSE IF ~TimeGuard(vault, now)
         THEN Fails("claim_legacy", sender, "abort", EUnlockTimeNotReached)
       ELSE LET amount == vault.balance
            IN /\ Len(events) < MaxEvents
               /\ IF amount > 0
                    THEN /\ vault' = [vault EXCEPT !.balance = SplitBalance(vault.balance, amount)]
                         /\ received' = [received EXCEPT ![sender] = @ + amount]
                    ELSE UNCHANGED <<vault, received>>
               /\ Emit([type |-> "LegacyClaimed", beneficiary |-> sender,
                        blob_id |-> vault.encrypted_blob_id,
                        shares |-> vault.locked_shares, amount |-> amount])
               /\ last' = Outcome("claim_legacy", sender, "ok", 0)
               /\ UNCHANGED engine_vars
               /\ UNCHANGED <<now, status, deposited>>

\* ----------------------------------------------------------- cancel_legacy
\* The object is left on the ledger.
cancel_legacy_KeepsObject(sender) ==
    /\ status # "none"
    /\ IF status = "deleted"
         THEN Fails("cancel_legacy", sender, "missing", 0)
       ELSE IF ~IsOwner(vault, sender)
         THEN Fails("cancel_legacy", sender, "abort", ENotOwner)
       ELSE LET amount == vault.balance
            IN /\ Len(events) < MaxEvents
               /\ IF amount > 0
                    THEN received' = [received EXCEPT ![sender] = @ + amount]
                    ELSE UNCHANGED received
               /\ Emit([type |-> "VaultCancelled", vault_id |-> vault.id,
                        owner |-> vault.owner, amount |-> amount])
               /\ vault' = [vault EXCEPT !.balance = 0]
               /\ last' = Outcome("cancel_legacy", sender, "ok", 0)
               /\ UNCHANGED engine_vars
               /\ UNCHANGED <<now, status, deposited>>

\* The destructuring before the owner check is not rolled back.
cancel_legacy_DestroysBeforeCheck(sender) ==
    /\ status # "none"
    /\ IF status = "deleted"
         THEN Fails("cancel_legacy", sender, "missing", 0)
       ELSE IF ~IsOwner(vault, sender)
         THEN /\ status' = "deleted"
              /\ vault' = EmptyBox
              /\ last' = Outcome("cancel_legacy", sender, "abort", ENotOwner)
              /\ UNCHANGED engine_vars
              /\ UNCHANGED <<now, events, received, deposited>>
       ELSE LET amount == vault.balance
            IN /\ Len(events) < MaxEvents
               /\ IF amount > 0
                    THEN received' = [received EXCEPT ![sender] = @ + amount]
                    ELSE UNCHANGED received
               /\ Emit([type |-> "VaultCancelled", vault_id |-> vault.id,
                        owner |-> vault.owner, amount |-> amount])
               /\ status' = "deleted"
               /\ vault' = EmptyBox
               /\ last' = Outcome("cancel_legacy", sender, "ok", 0)
               /\ UNCHANGED engine_vars
               /\ UNCHANGED <<now, deposited>>

cancel_legacy(sender) ==
    /\ status # "none"
    /\ IF status = "deleted"
         THEN Fails("cancel_legacy", sender, "missing", 0)
       ELSE IF ~IsOwner(vault, sender)
         THEN Fails("cancel_legacy", sender, "abort", ENotOwner)
       ELSE LET amount == vault.balance
            IN /\ Len(events) < MaxEvents
               /\ IF amount > 0
                    THEN received' = [received EXCEPT ![sender] = @ + amount]
                    ELSE UNCHANGED received
               /\ Emit([type |-> "VaultCancelled", vault_id |-> vault.id,
                        owner |-> vault.owner, amount |-> amount])
               /\ status' = "deleted"
               /\ vault' = EmptyBox
               /\ last' = Outcome("cancel_legacy", sender, "ok", 0)
               /\ UNCHANGED engine_vars
               /\ UNCHANGED <<now, deposited>>

\* --------------------------------------------------------------- add_funds
add_funds(sender, coin) ==
    /\ status # "none"
    /\ deposited + coin <= MaxBalance
    /\ IF status = "deleted"
         THEN Fails("add_funds", sender, "missing", 0)
       ELSE IF ~IsOwner(vault, sender)
         THEN Fails("add_funds", sender, "abort", ENotOwner)
       ELSE /\ vault' = [vault EXCEPT !.balance = JoinBalance(vault.balance, coin)]
            /\ deposited' = deposited + coin
            /\ last' = Outcome("add_funds", sender, "ok", 0)
            /\ UNCHANGED engine_vars
            /\ UNCHANGED <<now, status, events, received>>

\* ------------------------------------------------------ update_beneficiary
update_beneficiary_Ignored(sender, new_beneficiary) ==
    /\ status # "none"
    /\ IF status = "deleted"
         THEN Fails("update_beneficiary", sender, "missing", 0)
       ELSE IF ~IsOwner(vault, sender)
         THEN Fails("update_beneficiary", sender, "abort", ENotOwner)
       ELSE /\ last' = Outcome("update_beneficiary", sender, "ok", 0)
            /\ UNCHANGED engine_vars
            /\ UNCHANGED <<now, status, vault, events, received, deposited>>

\* The change of beneficiary also restarts the clock.
update_beneficiary_RestartsClock(sender, new_beneficiary) ==
    /\ status # "none"
    /\ IF status = "deleted"
         THEN Fails("update_beneficiary", sender, "missing", 0)
       ELSE IF ~IsOwner(vault, sender)
         THEN Fails("update_beneficiary", sender, "abort", ENotOwner)
       ELSE /\ vault' = [vault EXCEPT !.beneficiary = new_beneficiary,
                                      !.last_heartbeat = now]
            /\ last' = Outcome("update_beneficiary", sender, "ok", 0)
            /\ UNCHANGED engine_vars
            /\ UNCHANGED <<now, status, events, received, deposited>>

update_beneficiary(sender, new_beneficiary) ==
    /\ status # "none"
    /\ IF status = "deleted"
         THEN Fails("update_beneficiary", sender, "missing", 0)
       ELSE IF ~IsOwner(vault, sender)
         THEN Fails("update_beneficiary", sender, "abort", ENotOwner)
       ELSE /\ vault' = [vault EXCEPT !.beneficiary = new_beneficiary]
            /\ last' = Outcome("update_beneficiary", sender, "ok", 0)
            /\ UNCHANGED engine_vars
            /\ UNCHANGED <<now, status, events, received, deposited>>

\* ------------------------------------------------------ update_unlock_time
\* The update also restarts the clock.
update_unlock_time_ResetsClock(sender, new_unlock_time_ms) ==
    /\ status # "none"
    /\ IF status = "deleted"
         THEN Fails("update_unlock_time", sender, "missing", 0)
       ELSE IF ~IsOwner(vault, sender)
         THEN Fails("update_unlock_time", sender, "abort", ENotOwner)
       ELSE /\ vault' = [vault EXCEPT !.unlock_time_ms = new_unlock_time_ms,
                                      !.last_heartbeat = now]
            /\ last' = Outcome("update_unlock_time", sender, "ok", 0)
            /\ UNCHANGED engine_vars
            /\ UNCHANGED <<now, status, events, received, deposited>>

update_unlock_time(sender, new_unlock_time_ms) ==
    /\ status # "none"
    /\ IF status = "deleted"
         THEN Fails("update_unlock_time", sender, "missing", 0)
       ELSE IF ~IsOwner(vault, sender)
         THEN Fails("update_unlock_time", sender, "abort", ENotOwner)
       ELSE /\ vault' = [vault EXCEPT !.unlock_time_ms = new_unlock_time_ms]
            /\ last' = Outcome("update_unlock_time", sender, "ok", 0)
            /\ UNCHANGED engine_vars
            /\ UNCHANGED <<now, status, events, received, deposited>>

\* ---------------------------------------------------------- view functions
\* A view call reads the shared object; it changes nothing on the ledger.
Returns(op, b, n, strs, addr) ==
    /\ last' = [Outcome(op, "A", "ok", 0) EXCEPT
                  !.ret_bool = b, !.ret_u64 = n, !.ret_strings = strs,
                  !.ret_address = addr]
    /\ UNCHANGED <<now, status, vault, events, received, deposited>>
    /\ UNCHANGED engine_vars

get_locked_shares ==
    /\ status = "shared"
    /\ Returns("get_locked_shares", FALSE, 0, vault.locked_shares, "A")

get_beneficiary ==
    /\ status = "shared"
    /\ Returns("get_beneficiary", FALSE, 0, <<>>, vault.beneficiary)

can_claim ==
    /\ status = "shared"
    /\ LET current_time == now
       IN IF Overflows(vault.last_heartbeat, vault.unlock_time_ms)
            THEN Fails("can_claim", "A", "arithmetic", 0)
            ELSE Returns("can_claim", TimeGuard(vault, current_time), 0, <<>>, "A")

time_until_claim ==
    /\ status = "shared"
    /\ LET current_time == now
           unlock_at == UnlockAt(vault)
       IN IF Overflows(vault.last_heartbeat, vault.unlock_time_ms)
            THEN Fails("time_until_claim", "A", "arithmetic", 0)
            ELSE Returns("time_until_claim", FALSE,
                         IF current_time >= unlock_at THEN 0
                         ELSE unlock_at - current_time, <<>>, "A")

Next ==
    \/ Tick
    \/ \E s \in Creators, b \in Heirs, d \in Durations, blob \in BlobIds,
          shs \in ShareInputs, c \in 0..MaxBalance :
            create_vault(s, b, d, blob, shs[1], shs[2], shs[3], c)
    \/ \E s \in ADDRS : im_alive(s)
    \/ \E s \in ADDRS : claim_legacy(s)
    \/ \E s \in Managers : cancel_legacy(s)
    \/ \E s \in Managers, c \in 1..MaxBalance : add_funds(s, c)
    \/ \E s \in Managers, b \in NewHeirs : update_beneficiary(s, b)
    \/ \E s \in Managers, d \in NewDurations : update_unlock_time(s, d)
    \/ get_locked_shares
    \/ get_beneficiary
    \/ can_claim
    \/ time_until_claim

Spec == Init /\ [][Next]_vars

\* The ledger clock keeps advancing for as long as a u64 can hold the time.
LiveSpec == Init /\ [][Next]_vars /\ WF_vars(Tick)

\* ----------------------------------------------- secret sharing, as calls
\* generateAESKey(): fresh random bytes, as Base64 text.
generateAESKey(bytes) ==
    /\ aesKey = NoKey
    /\ aesKey' = encodeBase64(bytes)
    /\ call' = Gave("generateAESKey", <<>>, encodeBase64(bytes))
    /\ UNCHANGED <<shares, secretNote, encryptedBlob, plainShare, heirKeyPair, encryptedShare, payload, page, claimPage>>
    /\ UNCHANGED ledger_vars

\* splitKey(aesKey), its random coefficients being rnd.
splitKey(rnd) ==
    /\ aesKey # NoKey
    /\ shares = <<>>
    /\ shares' = splitKeyWith(aesKey, rnd)
    /\ call' = Gave("splitKey", <<>>, <<>>)
    /\ UNCHANGED <<aesKey, secretNote, encryptedBlob, plainShare, heirKeyPair, encryptedShare, payload, page, claimPage>>
    /\ UNCHANGED ledger_vars

\* recoverKey of the shares numbered pick[1], pick[2], ... in that order;
\* one call in a run, the function keeps no state between calls.
recoverKey(pick) ==
    /\ shares # <<>>
    /\ call.fn = "splitKey"
    /\ call' = [recoverKeyOf([i \in 1..Len(pick) |-> shares[pick[i]]]) EXCEPT !.args = pick]
    /\ UNCHANGED <<aesKey, shares, secretNote, encryptedBlob, plainShare, heirKeyPair, encryptedShare, payload, page, claimPage>>
    /\ UNCHANGED ledger_vars

\* The keys drawn: one character over the field.
KeyBytes == {<<k>> : k \in Field}
\* Up to three of the five shares, in any order.
Picks == {p \in UNION {[1..n -> 1..NUM_SHARES] : n \in 0..MIN_SHARES} : \A i, j \in DOMAIN p : i # j => p[i] # p[j]}

ShamirNext ==
    \/ \E bytes \in KeyBytes : generateAESKey(bytes)
    \/ \E rnd \in [1..1 -> Coefficients] : splitKey(rnd)
    \/ \E pick \in Picks : recoverKey(pick)

ShamirSpec == Init /\ [][ShamirNext]_vars

\* ------------------------------------------ payload encryption, as calls
\* The notes and the random nonces drawn.
Texts == {<<1>>, <<2, 1>>}

\* encryptPayload(text, aesKey) with the key in hand.
encryptPayload(text, nonce) ==
    /\ aesKey # NoKey
    /\ encryptedBlob = NoBlob
    /\ secretNote' = text
    /\ encryptedBlob' = encryptPayloadWith(text, aesKey, nonce)
    /\ call' = Gave("encryptPayload", <<>>, <<>>)
    /\ UNCHANGED <<aesKey, shares, plainShare, heirKeyPair, encryptedShare, payload, page, claimPage>>
    /\ UNCHANGED ledger_vars

\* The blob with one byte of its nonce changed, or with its ciphertext
\* changed.
AlteredBlobs(blob) ==
    LET combined == decodeBase64(blob)
    IN {encodeBase64([combined EXCEPT ![i] = 1 - @]) : i \in 1..NonceLength}
       \cup {encodeBase64([combined EXCEPT ![NonceLength + 1].intact = FALSE])}

\* decryptPayload(encryptedString, key); one call in a run.
decryptPayload(encryptedString, key) ==
    /\ call.fn = "encryptPayload"
    /\ call' = [decryptPayloadOf(encryptedString, key) EXCEPT
                  !.args = [blob |-> encryptedString, key |-> key]]
    /\ UNCHANGED <<aesKey, shares, secretNote, encryptedBlob, plainShare, heirKeyPair, encryptedShare, payload, page, claimPage>>
    /\ UNCHANGED ledger_vars

\* The blobs handed to decryptPayload: the one produced and its alterations.
BlobInputs == IF encryptedBlob = NoBlob THEN {} ELSE {encryptedBlob} \cup AlteredBlobs(encryptedBlob)

SecretBoxNext ==
    \/ \E bytes \in KeyBytes : generateAESKey(bytes)
    \/ \E text \in Texts, nonce \in Nonces : encryptPayload(text, nonce)
    \/ \E blob \in BlobInputs, bytes \in KeyBytes :
          decryptPayload(blob, encodeBase64(bytes))

SecretBoxSpec == Init /\ [][SecretBoxNext]_vars

\* ---------------------------------------------- share wrapping, as calls
\* The secret keys of nacl.box.keyPair() and the share strings drawn.
SecretKeys == {1, 2, 3}
\* The secret keys of the ephemeral keypair made inside encryptShareForHeir;
\* it is a local of that function and is dropped when it returns, so no
\* caller ever holds one of these.
EphemeralKeys == {4, 5}
ShareStrings == {<<1>>, <<2, 3>>}

\* generateKeyPair()
generateKeyPair(secretKey) ==
    /\ heirKeyPair = NoKeyPair
    /\ heirKeyPair' = [publicKey |-> encodeBase64(PublicKeyOf(secretKey)),
                       secretKey |-> encodeBase64(secretKey)]
    /\ call' = Gave("generateKeyPair", <<>>, <<>>)
    /\ UNCHANGED <<aesKey, shares, secretNote, encryptedBlob, plainShare, encryptedShare, payload, page, claimPage>>
    /\ UNCHANGED ledger_vars

\* encryptShareForHeir(share, heirPublicKey) with the heir's public key.
encryptShareForHeir(shr, ephemeralSecretKey, nonce) ==
    /\ heirKeyPair # NoKeyPair
    /\ encryptedShare = NoPackage
    /\ plainShare' = shr
    /\ encryptedShare' = encryptShareForHeirWith(shr, decodeBase64(heirKeyPair.publicKey),
                                                ephemeralSecretKey, nonce)
    /\ call' = Gave("encryptShareForHeir", <<>>, <<>>)
    /\ UNCHANGED <<aesKey, shares, secretNote, encryptedBlob, heirKeyPair, payload, page, claimPage>>
    /\ UNCHANGED ledger_vars

\* The package with its ciphertext changed, with one byte of its nonce
\* changed, or with another ephemeral public key.
AlteredPackages(str) ==
    LET package == JSON_parse(str)
    IN {JSON_stringify([package EXCEPT !.ciphertext.b64.intact = FALSE])}
       \cup {JSON_stringify([package EXCEPT !.nonce.b64[i] = 1 - @]) : i \in 1..NonceLength}
       \cup {JSON_stringify([package EXCEPT !.ephemeralPublicKey = encodeBase64(PublicKeyOf(k))]) :
               k \in (SecretKeys \cup EphemeralKeys) \ {package.ephemeralPublicKey.b64.pub}}

\* decryptShareAsHeir(encryptedPackage, secretKey); one call in a run.
decryptShareAsHeir(encryptedPackage, secretKey) ==
    /\ call.fn = "encryptShareForHeir"
    /\ call' = [decryptShareAsHeirOf(encryptedPackage, decodeBase64(secretKey)) EXCEPT
                  !.args = [package |-> encryptedPackage, secretKey |-> secretKey]]
    /\ UNCHANGED <<aesKey, shares, secretNote, encryptedBlob, plainShare, heirKeyPair, encryptedShare, payload, page, claimPage>>
    /\ UNCHANGED ledger_vars

\* The packages handed to decryptShareAsHeir: the one produced and its
\* alterations.
PackageInputs == IF encryptedShare = NoPackage THEN {} ELSE {encryptedShare} \cup AlteredPackages(encryptedShare)

HeirBoxNext ==
    \/ \E sk \in SecretKeys : generateKeyPair(sk)
    \/ \E shr \in ShareStrings, eph \in EphemeralKeys, nonce \in Nonces :
          encryptShareForHeir(shr, eph, nonce)
    \/ \E package \in PackageInputs, sk \in SecretKeys :
          decryptShareAsHeir(package, encodeBase64(sk))

HeirBoxSpec == Init /\ [][HeirBoxNext]_vars

\* ------------------------------------------------ the whole flow, as calls
\* The secret keys nacl.box.keyPair() gives the heir in the flows.
HeirSecretKeys == {1, 2}

\* The random choices of the three wraps: the same ephemeral key and nonce
\* three times, or different ones.
WrapSeeds ==
    LET n0 == [i \in 1..NonceLength |-> 0]
        n1 == [i \in 1..NonceLength |-> 1]
    IN {<<[eph |-> 4, nonce |-> n0], [eph |-> 4, nonce |-> n0], [eph |-> 4, nonce |-> n0]>>,
        <<[eph |-> 4, nonce |-> n0], [eph |-> 5, nonce |-> n1], [eph |-> 4, nonce |-> n1]>>}

\* createLegacyPayload(secretNote, heirPublicKey) for the heir's keypair; the
\* note and the random choices are drawn once the call is possible.
createLegacyPayload ==
    /\ heirKeyPair # NoKeyPair
    /\ payload = NoPayload
    /\ \E note \in Texts, bytes \in KeyBytes, nonce \in Nonces,
          rnd \in [1..1 -> Coefficients], seeds \in WrapSeeds :
            /\ secretNote' = note
            /\ payload' = createLegacyPayloadWith(note, decodeBase64(heirKeyPair.publicKey), bytes, nonce, rnd, seeds)
    /\ call' = Gave("createLegacyPayload", <<>>, <<>>)
    /\ UNCHANGED <<aesKey, shares, encryptedBlob, plainShare, heirKeyPair, encryptedShare, page, claimPage>>
    /\ UNCHANGED ledger_vars

\* A wrapped share whose ciphertext has been changed in storage.
CorruptedPackage(str) == JSON_stringify([JSON_parse(str) EXCEPT !.ciphertext.b64.intact = FALSE])

\* claimLegacy on the payload, with the public share or without it and with
\* the wrapped shares numbered in wrapped, in that order, the one numbered
\* corrupted (0 for none) being corrupted; one call in a run.
claimLegacy(withWalrus, wrapped, corrupted) ==
    /\ call.fn = "createLegacyPayload"
    /\ call' = [claimLegacyOf(payload.heirShare,
                              IF withWalrus THEN <<payload.walrusShare>> ELSE <<>>,
                              [i \in 1..Len(wrapped) |->
                                 IF wrapped[i] = corrupted
                                   THEN CorruptedPackage(payload.contractShares[wrapped[i]])
                                   ELSE payload.contractShares[wrapped[i]]],
                              decodeBase64(heirKeyPair.secretKey),
                              payload.encryptedBlob)
                  EXCEPT !.args = [withWalrus |-> withWalrus, wrapped |-> wrapped, corrupted |-> corrupted]]
    /\ UNCHANGED <<aesKey, shares, secretNote, encryptedBlob, plainShare, heirKeyPair, encryptedShare, payload, page, claimPage>>
    /\ UNCHANGED ledger_vars

\* The calls made: the public share and all three wrapped shares, none or
\* one of them corrupted; no public share and two of the wrapped shares; no
\* public share and one wrapped share.
ClaimCalls ==
    {[withWalrus |-> TRUE, wrapped |-> <<1, 2, 3>>, corrupted |-> c] : c \in {0, 1, 3}}
        \cup {[withWalrus |-> FALSE, wrapped |-> w, corrupted |-> 0] : w \in {<<1, 2>>, <<1, 3>>, <<2, 3>>, <<3, 2>>, <<1>>}}

PayloadNext ==
    \/ \E sk \in HeirSecretKeys : generateKeyPair(sk)
    \/ createLegacyPayload
    \/ \E c \in ClaimCalls : claimLegacy(c.withWalrus, c.wrapped, c.corrupted)

PayloadSpec == Init /\ [][PayloadNext]_vars

\* ------------------------------- claimLegacy on inputs of two payloads
\* A second payload, made for another heir from another secret.
OtherNote == <<3>>
OtherSecretKey == 3
OtherPayload ==
    LET n1 == [i \in 1..NonceLength |-> 1]
    IN createLegacyPayloadWith(OtherNote, PublicKeyOf(OtherSecretKey), <<5>>, n1, <<<<3, 3>>>>,
                               <<[eph |-> 5, nonce |-> n1], [eph |-> 4, nonce |-> n1], [eph |-> 5, nonce |-> n1]>>)

\* The coefficients of the split of the first payload; the second of them
\* are those of the other payload.
MixCoefficients == {<<<<1, 1>>>>, <<<<3, 3>>>>, <<<<2, 5>>>>}

\* The inputs of claimLegacy: a payload and the keypair it was made for.
MixInit ==
    /\ now = 0
    /\ status = "none"
    /\ vault = EmptyBox
    /\ events = <<>>
    /\ received = [a \in ADDRS |-> 0]
    /\ deposited = 0
    /\ last = NoCall
    /\ aesKey = NoKey
    /\ shares = <<>>
    /\ encryptedBlob = NoBlob
    /\ plainShare = <<>>
    /\ encryptedShare = NoPackage
    /\ page = NoPage
    /\ claimPage = NoClaimPage
    /\ call = NoEngineCall
    /\ \E note \in Texts, bytes \in KeyBytes, nonce \in Nonces, rnd \in MixCoefficients,
          sk \in HeirSecretKeys, seeds \in WrapSeeds :
            /\ secretNote = note
            /\ heirKeyPair = [publicKey |-> encodeBase64(PublicKeyOf(sk)), secretKey |-> encodeBase64(sk)]
            /\ payload = createLegacyPayloadWith(note, PublicKeyOf(sk), bytes, nonce, rnd, seeds)

\* Which payload each argument of claimLegacy is taken from; the wrapped
\* shares may be those of one payload or the second of the other payload
\* between the first and third of the first.
MixCalls ==
    [heirShare : {"own", "other"}, walrusShare : {"none", "own", "other"},
     contractShares : {"own", "other", "mixed"}, secretKey : {"own", "other"},
     encryptedBlob : {"own", "other"}]

\* claimLegacy on arguments taken from the two payloads; one call in a run.
claimLegacyMixed(c) ==
    /\ call = NoEngineCall
    /\ LET From(which) == IF which = "own" THEN payload ELSE OtherPayload
           contractShares ==
             IF c.contractShares = "mixed"
               THEN <<payload.contractShares[1], OtherPayload.contractShares[2], payload.contractShares[3]>>
               ELSE From(c.contractShares).contractShares
       IN call' = [claimLegacyOf(From(c.heirShare).heirShare,
                                 IF c.walrusShare = "none" THEN <<>> ELSE <<From(c.walrusShare).walrusShare>>,
                                 contractShares,
                                 IF c.secretKey = "own" THEN decodeBase64(heirKeyPair.secretKey) ELSE OtherSecretKey,
                                 From(c.encryptedBlob).encryptedBlob)
                     EXCEPT !.args = c]
    /\ UNCHANGED <<aesKey, shares, secretNote, encryptedBlob, plainShare, heirKeyPair, encryptedShare, payload, page, claimPage>>
    /\ UNCHANGED ledger_vars

MixNext == \E c \in MixCalls : claimLegacyMixed(c)

MixSpec == MixInit /\ [][MixNext]_vars

\* ------------------------------------------- CreateLegacyPage.handleCreate
\* walrusClient.storeBlob(data): the blob is stored and its id returned, or
\* it is stored and the answer has no blob id, or the request fails.
StoreOutcomes == {"stored", "storedThenThrew", "threw"}
storeBlob(data, outcome) == IF outcome = "threw" THEN page.walrus ELSE page.walrus \cup {data}

\* The catch of handleCreate.
handleCreate_catch == [page EXCEPT !.at = "failed", !.error = TRUE]

\* handleCreate up to its first await: the key and the encrypted note.
handleCreate_encrypt ==
    /\ page.step = "input"
    /\ \E note \in Texts, bytes \in KeyBytes, nonce \in Nonces :
        /\ secretNote' = note
        /\ aesKey' = encodeBase64(bytes)
        /\ encryptedBlob' = encryptPayloadWith(note, encodeBase64(bytes), nonce)
    /\ page' = [page EXCEPT !.step = "processing", !.at = "upload"]
    /\ call' = Gave("handleCreate", <<>>, <<>>)
    /\ UNCHANGED <<shares, plainShare, heirKeyPair, encryptedShare, payload, claimPage>>
    /\ UNCHANGED ledger_vars

\* await walrusClient.storeBlob(encryptedNote), then splitKey(aesKey).
handleCreate_upload(outcome) ==
    /\ page.at = "upload"
    /\ \/ /\ outcome = "stored"
          /\ \E rnd \in [1..1 -> Coefficients] : shares' = splitKeyWith(aesKey, rnd)
          /\ page' = [page EXCEPT !.walrus = storeBlob(encryptedBlob, outcome), !.at = "split"]
       \/ /\ outcome # "stored"
          /\ page' = [handleCreate_catch EXCEPT !.walrus = storeBlob(encryptedBlob, outcome)]
          /\ UNCHANGED shares
    /\ UNCHANGED <<aesKey, secretNote, encryptedBlob, plainShare, heirKeyPair, encryptedShare, payload, call, claimPage>>
    /\ UNCHANGED ledger_vars

\* await walrusClient.storeBlob(s2), then the demo keypair of the heir, kept
\* in localStorage unless setItem throws, and the wrapping of s3, s4, s5.
handleCreate_split(outcome) ==
    /\ page.at = "split"
    /\ \/ /\ outcome = "stored"
          /\ \E sk \in HeirSecretKeys, seeds \in WrapSeeds, persisted \in BOOLEAN :
                LET keyPair == [publicKey |-> encodeBase64(PublicKeyOf(sk)), secretKey |-> encodeBase64(sk)]
                    heirPublicKey == decodeBase64(keyPair.publicKey)
                IN /\ heirKeyPair' = keyPair
                   /\ page' = [page EXCEPT
                        !.walrus = storeBlob(shares[2], outcome),
                        !.localStorage = IF persisted THEN persistDemoKeyPair(page.localStorage, keyPair) ELSE page.localStorage,
                        !.encryptedShares =
                            <<encryptShareForHeirWith(shares[3], heirPublicKey, seeds[1].eph, seeds[1].nonce),
                              encryptShareForHeirWith(shares[4], heirPublicKey, seeds[2].eph, seeds[2].nonce),
                              encryptShareForHeirWith(shares[5], heirPublicKey, seeds[3].eph, seeds[3].nonce)>>,
                        !.at = "contract"]
       \/ /\ outcome # "stored"
          /\ page' = [handleCreate_catch EXCEPT !.walrus = storeBlob(shares[2], outcome)]
          /\ UNCHANGED heirKeyPair
    /\ UNCHANGED <<aesKey, shares, secretNote, encryptedBlob, plainShare, encryptedShare, payload, call, claimPage>>
    /\ UNCHANGED ledger_vars

\* createVault(params): the share arguments of the create_vault call.
createVaultShares_RawShare3(share3, share4, share5) == <<shares[3], share4, share5>>
createVaultShares(share3, share4, share5) == <<share3, share4, share5>>

\* await createVault({..., share3, share4, share5, ...}): the transaction is
\* executed or createVault throws.  The page shows s1 for the heir once the
\* call has returned.
VaultOutcomes == {"executed", "threw"}
handleCreate_contract(outcome) ==
    /\ page.at = "contract"
    /\ LET sent == createVaultShares(page.encryptedShares[1], page.encryptedShares[2], page.encryptedShares[3])
       IN page' = IF outcome = "executed"
                    THEN [page EXCEPT !.vault = sent, !.heirShare = <<shares[1]>>, !.step = "share", !.at = "done"]
                    ELSE handleCreate_catch
    /\ UNCHANGED <<aesKey, shares, secretNote, encryptedBlob, plainShare, heirKeyPair, encryptedShare, payload, call, claimPage>>
    /\ UNCHANGED ledger_vars

PageNext ==
    \/ handleCreate_encrypt
    \/ \E outcome \in StoreOutcomes : handleCreate_upload(outcome)
    \/ \E outcome \in StoreOutcomes : handleCreate_split(outcome)
    \/ \E outcome \in VaultOutcomes : handleCreate_contract(outcome)

PageSpec == Init /\ [][PageNext]_vars

\* ------------------------------------------------------------ ClaimPage
\* The key a fresh generateKeyPair() of the claim page gives: none of the
\* keys given out before.
DemoSecretKeys == SecretKeys \ HeirSecretKeys

\* The browser once handleCreate has run to its end and the claim page has
\* been opened in it: the note, its key, the five shares, the keypair of the
\* heir, what handleCreate has stored and sent, and the page as mounted.
ClaimInit ==
    /\ now = 0
    /\ status = "none"
    /\ vault = EmptyBox
    /\ events = <<>>
    /\ received = [a \in ADDRS |-> 0]
    /\ deposited = 0
    /\ last = NoCall
    /\ plainShare = <<>>
    /\ encryptedShare = NoPackage
    /\ payload = NoPayload
    /\ call = NoEngineCall
    /\ \E note \in Texts, bytes \in KeyBytes, nonce \in Nonces, rnd \in MixCoefficients,
          sk \in HeirSecretKeys, seeds \in WrapSeeds, persisted \in BOOLEAN, demo \in DemoSecretKeys :
            LET key == encodeBase64(bytes)
                blob == encryptPayloadWith(note, key, nonce)
                shs == splitKeyWith(key, rnd)
                keyPair == [publicKey |-> encodeBase64(PublicKeyOf(sk)), secretKey |-> encodeBase64(sk)]
                heirPublicKey == decodeBase64(keyPair.publicKey)
                encryptedShares == <<encryptShareForHeirWith(shs[3], heirPublicKey, seeds[1].eph, seeds[1].nonce),
                                     encryptShareForHeirWith(shs[4], heirPublicKey, seeds[2].eph, seeds[2].nonce),
                                     encryptShareForHeirWith(shs[5], heirPublicKey, seeds[3].eph, seeds[3].nonce)>>
                storage == IF persisted THEN persistDemoKeyPair(NoItems, keyPair) ELSE NoItems
            IN /\ secretNote = note
               /\ aesKey = key
               /\ encryptedBlob = blob
               /\ shares = shs
               /\ heirKeyPair = keyPair
               /\ page = [NoPage EXCEPT !.step = "share", !.at = "done", !.walrus = {blob, shs[2]},
                                        !.localStorage = storage, !.encryptedShares = encryptedShares,
                                        !.vault = createVaultShares(encryptedShares[1], encryptedShares[2], encryptedShares[3]),
                                        !.heirShare = <<shs[1]>>]
               /\ claimPage = ClaimPage(storage, [publicKey |-> encodeBase64(PublicKeyOf(demo)), secretKey |-> encodeBase64(demo)])

\* handleSearch: getVault gives the vault handleCreate has made, or null.
SearchOutcomes == {"found", "notFound"}
handleSearch(outcome, canClaim) ==
    /\ claimPage.step = "search"
    /\ ~claimPage.loading
    /\ claimPage' = IF outcome = "found"
                      THEN [claimPage EXCEPT !.vaultInfo = <<[lockedShares |-> page.vault, canClaim |-> canClaim]>>,
                                             !.step = "found", !.error = ""]
                      ELSE [claimPage EXCEPT !.error = "Vault not found. Please check the ID."]
    /\ call' = Gave("handleSearch", <<>>, <<>>)
    /\ UNCHANGED <<aesKey, shares, secretNote, encryptedBlob, plainShare, heirKeyPair, encryptedShare, payload, page>>
    /\ UNCHANGED ledger_vars

\* The interval of the page: the time remaining has run out.
updateTimeRemaining ==
    /\ claimPage.vaultInfo # <<>>
    /\ ~claimPage.vaultInfo[1].canClaim
    /\ claimPage' = [claimPage EXCEPT !.vaultInfo[1].canClaim = TRUE]
    /\ UNCHANGED <<aesKey, shares, secretNote, encryptedBlob, plainShare, heirKeyPair, encryptedShare, payload, page, call>>
    /\ UNCHANGED ledger_vars

\* "Search Another Vault" of step 'found'.
searchAnother ==
    /\ claimPage.step = "found"
    /\ claimPage' = [claimPage EXCEPT !.step = "search", !.vaultInfo = <<>>]
    /\ call' = Gave("searchAnother", <<>>, <<>>)
    /\ UNCHANGED <<aesKey, shares, secretNote, encryptedBlob, plainShare, heirKeyPair, encryptedShare, payload, page>>
    /\ UNCHANGED ledger_vars

\* handleClaim up to its await: the button is shown in step 'found' when the
\* vault can be claimed.
handleClaim_send ==
    /\ claimPage.step = "found"
    /\ claimPage.vaultInfo # <<>>
    /\ claimPage.vaultInfo[1].canClaim
    /\ claimPage' = [claimPage EXCEPT !.step = "claiming", !.error = "", !.at = "claim", !.claimTx = "pending"]
    /\ call' = Gave("handleClaim", <<>>, <<>>)
    /\ UNCHANGED <<aesKey, shares, secretNote, encryptedBlob, plainShare, heirKeyPair, encryptedShare, payload, page>>
    /\ UNCHANGED ledger_vars

\* await claimLegacy(vaultInfo.id): the promise is resolved or rejected.
ClaimOutcomes == {"resolved", "rejected"}
handleClaim_await_AlwaysAdvances(outcome) ==
    /\ claimPage.at = "claim"
    /\ claimPage' = [claimPage EXCEPT !.step = "reconstruct", !.at = "idle", !.claimTx = outcome]
    /\ UNCHANGED <<aesKey, shares, secretNote, encryptedBlob, plainShare, heirKeyPair, encryptedShare, payload, page, call>>
    /\ UNCHANGED ledger_vars
handleClaim_await(outcome) ==
    /\ claimPage.at = "claim"
    /\ claimPage' = IF outcome = "resolved"
                      THEN [claimPage EXCEPT !.step = "reconstruct", !.at = "idle", !.claimTx = outcome]
                      ELSE [claimPage EXCEPT !.step = "found", !.at = "idle", !.claimTx = outcome,
                                             !.error = "Failed to claim legacy"]
    /\ UNCHANGED <<aesKey, shares, secretNote, encryptedBlob, plainShare, heirKeyPair, encryptedShare, payload, page, call>>
    /\ UNCHANGED ledger_vars

\* What the heir types into the two fields of step 'reconstruct': their
\* share or a share of another vault; nothing, their secret key or another.
HeirShareInputs == {"own", "other"}
HeirSecretKeyInputs == {"empty", "own", "other"}

\* heirSecretKey || storedDemoSecret || demoKeyPair.secretKey
secretKeyOf(heirSecretKey, storedDemoSecret, demoKeyPair) == IF heirSecretKey # <<>> THEN heirSecretKey[1] ELSE IF storedDemoSecret # <<>> THEN storedDemoSecret[1] ELSE demoKeyPair.secretKey

\* handleReconstruct up to its await: the button is enabled in step
\* 'reconstruct' when a share is typed in and the page is not loading.
handleReconstruct_recover(heirShareInput, heirSecretKeyInput) ==
    /\ claimPage.step = "reconstruct"
    /\ ~claimPage.loading
    /\ LET heirShare == IF heirShareInput = "own" THEN shares[1] ELSE OtherPayload.heirShare
           heirSecretKey == IF heirSecretKeyInput = "empty" THEN <<>>
                            ELSE IF heirSecretKeyInput = "own" THEN <<heirKeyPair.secretKey>>
                            ELSE <<encodeBase64(OtherSecretKey)>>
           typed == [claimPage EXCEPT !.heirShare = <<heirShare>>, !.heirSecretKey = heirSecretKey, !.error = ""]
           secretKey == secretKeyOf(heirSecretKey, claimPage.storedDemoSecret, claimPage.demoKeyPair)
           lockedShares == claimPage.vaultInfo[1].lockedShares
           decrypted == [i \in 1..Len(lockedShares) |-> decryptShareAsHeirOf(lockedShares[i], decodeBase64(secretKey))]
       IN IF \E i \in 1..Len(decrypted) : ~decrypted[i].ok
            THEN claimPage' = [typed EXCEPT !.error = "Failed to decrypt shares. Invalid secret key."]
          ELSE LET sharesToCombine == <<heirShare, decrypted[1].value, decrypted[2].value>>
                   recovered == recoverKeyOf(sharesToCombine)
               IN IF ~recovered.ok
                    THEN claimPage' = [typed EXCEPT !.error = recovered.error]
                    ELSE claimPage' = [typed EXCEPT !.loading = TRUE, !.at = "read", !.recovered = recovered.value]
    /\ call' = Gave("handleReconstruct", <<>>, <<>>)
    /\ UNCHANGED <<aesKey, shares, secretNote, encryptedBlob, plainShare, heirKeyPair, encryptedShare, payload, page>>
    /\ UNCHANGED ledger_vars

\* await walrusClient.readBlob(vaultInfo.encryptedBlobId), then
\* decryptPayload and the end of handleReconstruct.
ReadOutcomes == {"read", "threw"}
handleReconstruct_decrypt(outcome) ==
    /\ claimPage.at = "read"
    /\ LET done == [claimPage EXCEPT !.loading = FALSE, !.at = "idle", !.recovered = NoKey]
           secret == decryptPayloadOf(encryptedBlob, claimPage.recovered)
       IN claimPage' = IF outcome = "threw"
                         THEN [done EXCEPT !.error = "Walrus read failed"]
                       ELSE IF ~secret.ok
                         THEN [done EXCEPT !.error = secret.error]
                         ELSE [done EXCEPT !.decryptedSecret = secret.value, !.step = "success"]
    /\ UNCHANGED <<aesKey, shares, secretNote, encryptedBlob, plainShare, heirKeyPair, encryptedShare, payload, page, call>>
    /\ UNCHANGED ledger_vars

\* "Claim Another" of step 'success'.
claimAnother ==
    /\ claimPage.step = "success"
    /\ claimPage' = [claimPage EXCEPT !.step = "search", !.heirShare = <<>>, !.vaultInfo = <<>>, !.decryptedSecret = <<>>]
    /\ call' = Gave("claimAnother", <<>>, <<>>)
    /\ UNCHANGED <<aesKey, shares, secretNote, encryptedBlob, plainShare, heirKeyPair, encryptedShare, payload, page>>
    /\ UNCHANGED ledger_vars

ClaimPageNext ==
    \/ \E outcome \in SearchOutcomes, canClaim \in BOOLEAN : handleSearch(outcome, canClaim)
    \/ updateTimeRemaining
    \/ searchAnother
    \/ handleClaim_send
    \/ \E outcome \in ClaimOutcomes : handleClaim_await(outcome)
    \/ \E heirShareInput \in HeirShareInputs, heirSecretKeyInput \in HeirSecretKeyInputs : handleReconstruct_recover(heirShareInput, heirSecretKeyInput)
    \/ \E outcome \in ReadOutcomes : handleReconstruct_decrypt(outcome)
    \/ claimAnother

ClaimPageSpec == ClaimInit /\ [][ClaimPageNext]_vars

\* ------------------------------------------------------ history predicates
EventTypes == {events[i].type : i \in 1..Len(events)}
Claimed == "LegacyClaimed" \in EventTypes
Cancelled == "VaultCancelled" \in EventTypes
HeartbeatTimes ==
    {events[i].timestamp : i \in {j \in 1..Len(events) : events[j].type = "HeartbeatUpdated"}}

\* The step is a call of op on the vault while it is on the ledger.
Calls(op) == status = "shared" /\ last'.op = op

\* ------------------------------------------- the pages' remaining time
\* Math.max(0, lastHeartbeat + unlockTimeMs - now) of ClaimPage and
\* DashboardPage, in JavaScript numbers (the sum does not wrap), and the
\* canClaim / isExpired flag.
timeRemaining(lastHeartbeat, unlockTimeMs, dateNow) ==
    LET unlockAt == lastHeartbeat + unlockTimeMs
    IN IF unlockAt - dateNow > 0 THEN unlockAt - dateNow ELSE 0
canClaimFlag(lastHeartbeat, unlockTimeMs, dateNow) == timeRemaining(lastHeartbeat, unlockTimeMs, dateNow) = 0

\* --------------------------------------------------------------- properties

\* C1: a claim by the beneficiary at now <= last_heartbeat + unlock_duration
\* (the boundary included) fails with EUnlockTimeNotReached and changes no
\* field of the vault; a claim succeeds only when
\* now > last_heartbeat + unlock_duration.
C1_EarlyClaimUnlockTimeNotReached ==
    [][ /\ ( Calls("claim_legacy") /\ last'.sender = vault.beneficiary
             /\ now <= vault.last_heartbeat + vault.unlock_time_ms )
           => ( /\ last'.result = "abort"
                /\ last'.code = EUnlockTimeNotReached
                /\ vault' = vault /\ received' = received )
        /\ ( Calls("claim_legacy") /\ last'.result = "ok" )
           => now > vault.last_heartbeat + vault.unlock_time_ms
      ]_vars

\* C2: a claim by an address other than the current beneficiary fails with
\* ENotBeneficiary and moves no balance, before and after the unlock time.
C2_NonBeneficiaryClaimRejected ==
    [][ ( Calls("claim_legacy") /\ last'.sender # vault.beneficiary )
        => ( /\ last'.result = "abort"
             /\ last'.code = ENotBeneficiary
             /\ vault' = vault /\ received' = received /\ events' = events )
      ]_vars

\* A stranger's claim was rejected although the unlock time has passed and
\* the vault holds coins.
C2_Witness ==
    /\ status = "shared"
    /\ Aborted("claim_legacy", ENotBeneficiary)
    /\ last.sender \notin {vault.owner, vault.beneficiary}
    /\ now > vault.last_heartbeat + vault.unlock_time_ms
    /\ vault.balance > 0

\* C3: im_alive by an address other than the owner fails with ENotOwner and
\* changes neither last_heartbeat nor any other field.
C3_NonOwnerHeartbeatRejected ==
    [][ ( Calls("im_alive") /\ last'.sender # vault.owner )
        => ( /\ last'.result = "abort"
             /\ last'.code = ENotOwner
             /\ vault' = vault /\ events' = events )
      ]_vars

\* The beneficiary's heartbeat was rejected at a time later than the stored
\* last_heartbeat.
C3_Witness ==
    /\ status = "shared"
    /\ Aborted("im_alive", ENotOwner)
    /\ last.sender = vault.beneficiary
    /\ last.sender # vault.owner
    /\ now > vault.last_heartbeat

\* C4: a successful claim transfers the whole balance to the beneficiary and
\* leaves the vault balance at 0; a claim whose caller and time guards hold
\* succeeds also when the balance is already 0.
C4_ClaimTransfersEntireBalance ==
    [][ /\ ( Calls("claim_legacy") /\ last'.result = "ok" )
           => ( /\ vault'.balance = 0
                /\ last'.sender = vault.beneficiary
                /\ received' = [received EXCEPT ![last'.sender] = @ + vault.balance] )
        /\ ( Calls("claim_legacy") /\ last'.sender = vault.beneficiary
             /\ vault.last_heartbeat + vault.unlock_time_ms <= MAX_U64
             /\ now > vault.last_heartbeat + vault.unlock_time_ms )
           => last'.result = "ok"
      ]_vars

\* A claim paid out a balance of 2 and a second claim on the emptied vault
\* succeeded with nothing to transfer.
C4_Witness ==
    /\ Succeeded("claim_legacy")
    /\ Len(events) = 3
    /\ events[2].type = "LegacyClaimed" /\ events[2].amount = 2
    /\ events[3].type = "LegacyClaimed" /\ events[3].amount = 0
    /\ vault.balance = 0
    /\ received[last.sender] = 2

\* C5: the share_records leave the vault only in the record of a successful
\* claim: nobody reads them before a claim has succeeded.
C5_SharesOnlyThroughClaim ==
    (last.op = "get_locked_shares" /\ last.result = "ok") => Claimed

\* C6: after a successful im_alive at time t the vault is not claimable at t,
\* and every claim at a time now <= t + unlock_duration fails.
C6_HeartbeatResetsClock ==
    [][ /\ ( Calls("im_alive") /\ last'.result = "ok" )
           => ~( /\ vault'.last_heartbeat + vault'.unlock_time_ms <= MAX_U64
                 /\ now' > vault'.last_heartbeat + vault'.unlock_time_ms )
        /\ ( Calls("claim_legacy")
             /\ \E t \in HeartbeatTimes :
                  /\ \A u \in HeartbeatTimes : u <= t
                  /\ now <= t + vault.unlock_time_ms )
           => ( last'.result # "ok" /\ vault' = vault /\ received' = received )
      ]_vars

\* The owner's heartbeat at time t came when the vault was past its unlock
\* time (a heartbeat later than creation with duration 0), and the
\* beneficiary's claim at that same time t failed.
C6_Witness ==
    /\ status = "shared"
    /\ last.op = "claim_legacy" /\ last.result = "abort"
    /\ last.sender = vault.beneficiary
    /\ Len(events) = 2
    /\ events[1].unlock_time_ms = 0 /\ vault.unlock_time_ms = 0
    /\ events[2].type = "HeartbeatUpdated"
    /\ events[2].timestamp = now /\ now > 0
    /\ vault.last_heartbeat = now

\* C7: for a vault created at t0 with duration d and neither heartbeat nor
\* update since, can_claim returns false at every time up to t0 + d and true
\* from t0 + d + 1 on.
C7_CanClaimAfterCreation ==
    /\ Succeeded("create_vault") => vault.last_heartbeat = now
    /\ ( /\ last.op = "can_claim"
         /\ HeartbeatTimes = {}
         /\ vault.unlock_time_ms = events[1].unlock_time_ms )
       => ( /\ last.result = "ok"
            /\ last.ret_bool = (now > vault.last_heartbeat + vault.unlock_time_ms) )

\* C8: once a claim has succeeded, every im_alive on the vault fails and
\* leaves last_heartbeat as it is, the owner's included.
C8_HeartbeatAfterClaimRejected ==
    [][ ( Calls("im_alive") /\ Claimed )
        => ( last'.result # "ok" /\ vault'.last_heartbeat = vault.last_heartbeat )
      ]_vars

\* C9: no vault is both claimed and cancelled.
C9_OneTerminalOutcome == ~(Claimed /\ Cancelled)

\* C10: of an owner heartbeat and a beneficiary claim committed one right
\* after the other at the same time past the unlock time, the second one
\* fails, whichever it is.
C10_RaceHasOneWinner ==
    [][ /\ ( Succeeded("im_alive") /\ Calls("claim_legacy") /\ now' = now )
           => last'.result # "ok"
        /\ ( Succeeded("claim_legacy") /\ Calls("im_alive") /\ now' = now )
           => last'.result # "ok"
      ]_vars

LastEvent == events[Len(events)]

\* C11: after a successful claim no claim_legacy, add_funds,
\* update_beneficiary or update_unlock_time on the vault succeeds or changes
\* a field, and no second LegacyClaimed record is emitted.
C11_ClaimedVaultIsInert ==
    [][ ( /\ Claimed
          /\ \/ Calls("claim_legacy") \/ Calls("add_funds")
             \/ Calls("update_beneficiary") \/ Calls("update_unlock_time") )
        => ( last'.result # "ok" /\ vault' = vault /\ events' = events )
      ]_vars

\* C12: cancel_legacy by the owner of a vault that is not claimed succeeds
\* at every time, pays the whole balance to the owner (nothing when it is
\* 0), emits VaultCancelled with that amount and deletes the object; on a
\* deleted object no call succeeds and nothing changes.
C12_CancelReturnsAllAndDestroys ==
    [][ /\ ( Calls("cancel_legacy") /\ last'.sender = vault.owner /\ ~Claimed )
           => ( /\ last'.result = "ok"
                /\ received' = [received EXCEPT ![vault.owner] = @ + vault.balance]
                /\ events' = Append(events, [type |-> "VaultCancelled",
                                             vault_id |-> vault.id,
                                             owner |-> vault.owner,
                                             amount |-> vault.balance])
                /\ status' = "deleted" )
        /\ ( status = "deleted" /\ last'.op # "tick" )
           => ( /\ last'.result = "missing"
                /\ UNCHANGED <<status, vault, events, received, deposited>> )
      ]_vars

\* The owner cancelled a vault holding 2 coins at a time later than its
\* creation and got them back; the beneficiary's claim on the deleted object
\* was refused.
C12_Witness ==
    /\ status = "deleted"
    /\ last.op = "claim_legacy" /\ last.result = "missing"
    /\ Len(events) = 2
    /\ LastEvent.type = "VaultCancelled" /\ LastEvent.amount = 2
    /\ received[LastEvent.owner] = 2
    /\ now > 0

\* C13: add_funds, update_beneficiary, update_unlock_time and cancel_legacy
\* called by an address other than the owner fail with ENotOwner; the vault
\* stays on the ledger with every field and the balance as they were, no
\* coin moves and no event is emitted.
C13_NonOwnerRejectedWithoutEffect ==
    [][ ( /\ \/ Calls("add_funds") \/ Calls("update_beneficiary")
             \/ Calls("update_unlock_time") \/ Calls("cancel_legacy")
          /\ last'.sender # vault.owner )
        => ( /\ last'.result = "abort"
             /\ last'.code = ENotOwner
             /\ UNCHANGED <<status, vault, events, received, deposited>> )
      ]_vars

\* The beneficiary's cancel_legacy on a funded vault was rejected and the
\* vault is still there.
C13_Witness ==
    /\ status = "shared"
    /\ Aborted("cancel_legacy", ENotOwner)
    /\ last.sender = vault.beneficiary
    /\ last.sender # vault.owner
    /\ vault.balance > 0

\* C14: add_funds by the owner with amount a turns the balance b into b + a
\* and changes no other field.
C14_AddFundsAddsExactly ==
    [][ Calls("add_funds")
        => \A s \in ADDRS, a \in 1..MaxBalance :
             ( s = vault.owner /\ add_funds(s, a) )
             => ( /\ last'.result = "ok"
                  /\ vault' = [vault EXCEPT !.balance = vault.balance + a]
                  /\ UNCHANGED <<status, events, received>> )
      ]_vars

\* The owner's add_funds, after a heartbeat, brought the balance to 2 with
\* nothing paid out.
C14_Witness ==
    /\ status = "shared"
    /\ Succeeded("add_funds")
    /\ vault.balance = 2 /\ deposited = 2
    /\ \A a \in ADDRS : received[a] = 0
    /\ vault.last_heartbeat > 0

\* C15: im_alive by the owner at time now sets last_heartbeat to now, changes
\* no other field, and emits exactly one HeartbeatUpdated record with the
\* vault id and now.
C15_HeartbeatSetsTimeAndEmits ==
    [][ ( Calls("im_alive") /\ last'.sender = vault.owner )
        => ( /\ last'.result = "ok"
             /\ vault' = [vault EXCEPT !.last_heartbeat = now]
             /\ events' = Append(events, [type |-> "HeartbeatUpdated",
                                          vault_id |-> vault.id,
                                          timestamp |-> now])
             /\ UNCHANGED <<status, received, deposited>> )
      ]_vars

\* The owner's heartbeat at a time later than the creation moved
\* last_heartbeat and is the last record of the stream.
C15_Witness ==
    /\ status = "shared"
    /\ Succeeded("im_alive")
    /\ LastEvent.type = "HeartbeatUpdated" /\ LastEvent.timestamp = now
    /\ vault.last_heartbeat = now /\ now > 0
    /\ Len(events) = 2
    /\ vault.balance > 0

\* C16: every vault on the ledger has unlock_duration > 0.
C16_UnlockDurationPositive ==
    status = "shared" => vault.unlock_time_ms > 0

\* C17: a vault on the ledger has exactly 3 share_records; share_records,
\* payload_reference, owner and id are the values given to create_vault and
\* no later call changes them.
C17_CreationFieldsImmutable ==
    [][ /\ last'.op = "create_vault"
           => \A s \in Creators, b \in Heirs, d \in Durations, blob \in BlobIds,
                 shs \in ShareInputs, c \in 0..MaxBalance :
                create_vault(s, b, d, blob, shs[1], shs[2], shs[3], c)
                => ( /\ vault'.locked_shares = <<shs[1], shs[2], shs[3]>>
                     /\ vault'.encrypted_blob_id = blob
                     /\ vault'.owner = s
                     /\ vault'.id = VAULT_ID )
        /\ status' = "shared" => Len(vault'.locked_shares) = 3
        /\ ( status = "shared" /\ status' = "shared" )
           => ( /\ vault'.locked_shares = vault.locked_shares
                /\ vault'.encrypted_blob_id = vault.encrypted_blob_id
                /\ vault'.owner = vault.owner
                /\ vault'.id = vault.id )
      ]_vars

\* After a heartbeat, a change of beneficiary and of duration and a claim,
\* the vault still carries the three shares, the blob id and the owner of its
\* creation.
C17_Witness ==
    /\ status = "shared"
    /\ Len(events) = 3
    /\ events[2].type = "HeartbeatUpdated"
    /\ events[3].type = "LegacyClaimed"
    /\ vault.beneficiary # events[1].beneficiary
    /\ vault.unlock_time_ms # events[1].unlock_time_ms
    /\ vault.locked_shares = <<"share_3", "share_4", "share_5">>
    /\ vault.encrypted_blob_id = "blob_id"
    /\ vault.owner = events[1].owner

\* C18: last_heartbeat is the clock time of the creation, never decreases,
\* and changes only in a successful im_alive by the owner.
C18_HeartbeatMonotonic ==
    [][ /\ ( status = "none" /\ last'.op = "create_vault" )
           => vault'.last_heartbeat = now
        /\ ( status = "shared" /\ status' = "shared" )
           => ( /\ vault'.last_heartbeat >= vault.last_heartbeat
                /\ vault'.last_heartbeat # vault.last_heartbeat
                   => ( /\ last'.op = "im_alive" /\ last'.result = "ok"
                        /\ last'.sender = vault.owner ) )
      ]_vars

\* Two heartbeats at increasing times after a creation at time 0.
C18_Witness ==
    /\ status = "shared"
    /\ Succeeded("im_alive")
    /\ Len(events) = 3
    /\ events[2].type = "HeartbeatUpdated" /\ events[2].timestamp = 1
    /\ events[3].type = "HeartbeatUpdated" /\ events[3].timestamp = 2
    /\ vault.last_heartbeat = 2

\* C19: in every step of a vault on the ledger the balance stays, grows (in
\* a successful add_funds only) or drops to exactly 0 (in a successful
\* claim_legacy or cancel_legacy only).
C19_BalanceAllOrNothing ==
    [][ status = "shared"
        => \/ vault'.balance = vault.balance
           \/ /\ vault'.balance > vault.balance
              /\ last'.op = "add_funds" /\ last'.result = "ok"
           \/ /\ vault'.balance = 0
              /\ last'.op \in {"claim_legacy", "cancel_legacy"}
              /\ last'.result = "ok"
      ]_vars

\* The first claim on a vault holding 2 coins emptied it.
C19_Witness ==
    /\ status = "shared"
    /\ Succeeded("claim_legacy")
    /\ Len(events) = 2
    /\ LastEvent.amount = 2
    /\ vault.balance = 0 /\ deposited = 2

\* C20: update_beneficiary(new) by the owner makes new the beneficiary that
\* get_beneficiary returns; a claim by any other address, the previous
\* beneficiary included, fails with ENotBeneficiary, and a claim by the
\* beneficiary succeeds once now > last_heartbeat + unlock_duration.
C20_NewBeneficiaryOnlyClaimant ==
    [][ /\ Calls("update_beneficiary")
           => \A s \in ADDRS, b \in NewHeirs :
                ( s = vault.owner /\ update_beneficiary(s, b) )
                => ( last'.result = "ok" /\ vault'.beneficiary = b )
        /\ Calls("get_beneficiary")
           => ( last'.result = "ok" /\ last'.ret_address = vault.beneficiary )
        /\ ( Calls("claim_legacy") /\ last'.sender # vault.beneficiary )
           => ( last'.result = "abort" /\ last'.code = ENotBeneficiary )
        /\ ( Calls("claim_legacy") /\ last'.sender = vault.beneficiary
             /\ now > vault.last_heartbeat + vault.unlock_time_ms )
           => last'.result = "ok"
      ]_vars

\* The owner made itself the beneficiary; past the unlock time the claim of
\* the beneficiary named at creation was rejected.
C20_Witness ==
    /\ status = "shared"
    /\ Aborted("claim_legacy", ENotBeneficiary)
    /\ last.sender = events[1].beneficiary
    /\ vault.beneficiary # events[1].beneficiary
    /\ now > vault.last_heartbeat + vault.unlock_time_ms
    /\ vault.balance > 0

\* C21: time_until_claim returns max(0, last_heartbeat + unlock_duration - now)
\* for every vault and every time, and changes nothing.
C21_TimeUntilClaimIsRemaining ==
    [][ Calls("time_until_claim")
        => ( /\ last'.result = "ok"
             /\ last'.ret_u64 =
                  ( IF vault.last_heartbeat + vault.unlock_time_ms > now
                      THEN vault.last_heartbeat + vault.unlock_time_ms - now
                      ELSE 0 )
             /\ UNCHANGED <<status, vault, events, received>> )
      ]_vars

\* C22: the LegacyClaimed record of a successful claim carries the claimant,
\* the stored blob id, the three stored shares in order and the balance held
\* just before the claim; a failed claim emits nothing.
C22_ClaimRecordCarriesVaultData ==
    [][ /\ ( Calls("claim_legacy") /\ last'.result = "ok" )
           => ( /\ events' = Append(events,
                       [type |-> "LegacyClaimed", beneficiary |-> last'.sender,
                        blob_id |-> vault.encrypted_blob_id,
                        shares |-> vault.locked_shares,
                        amount |-> vault.balance])
                /\ Len(vault.locked_shares) = 3
                /\ vault.locked_shares = <<"share_3", "share_4", "share_5">> )
        /\ ( last'.op = "claim_legacy" /\ last'.result # "ok" )
           => events' = events
      ]_vars

\* A claim paid out a positive balance and its record is the last of the log.
C22_Witness ==
    /\ Succeeded("claim_legacy")
    /\ LastEvent.type = "LegacyClaimed"
    /\ LastEvent.beneficiary = last.sender
    /\ LastEvent.amount > 0
    /\ received[last.sender] = LastEvent.amount

\* C23: every successful creation, heartbeat, claim and cancel appends
\* exactly one event to a log that only grows, and the event carries the
\* vault id, the acting address and the timestamp of the transition.
C23_AuditEventsCarryIdActorTime ==
    [][ /\ Len(events') >= Len(events)
        /\ SubSeq(events', 1, Len(events)) = events
        /\ ( last'.op \in {"create_vault", "im_alive", "claim_legacy", "cancel_legacy"}
             /\ last'.result = "ok" )
           => ( /\ Len(events') = Len(events) + 1
                /\ LET fields == DOMAIN events'[Len(events')]
                   IN /\ "vault_id" \in fields
                      /\ fields \cap {"owner", "beneficiary", "sender"} # {}
                      /\ "timestamp" \in fields )
      ]_vars

\* C24: for every key and every split of it into five shares, recoverKey of
\* any three of the shares, in any order, returns the key.
C24_AnyThreeSharesRecoverKey ==
    ( call.fn = "recoverKey" /\ Len(call.args) = 3 )
    => ( call.ok /\ call.value = aesKey )

\* Shares 5, 3 and 1, in that order, of a split with shares that differ
\* from the key gave the key back.
C24_Witness ==
    /\ call.fn = "recoverKey"
    /\ call.args = <<5, 3, 1>>
    /\ call.ok
    /\ call.value = aesKey
    /\ \A i \in {1, 3, 5} : shares[i].data # decodeBase64(aesKey)
    /\ shares[1].data # shares[3].data

\* C25: recoverKey of 0, 1 or 2 shares throws the minimum-shares error and
\* returns no value.
C25_FewerThanThreeSharesRejected ==
    ( call.fn = "recoverKey" /\ Len(call.args) < 3 )
    => ( /\ ~call.ok
         /\ call.error = "Minimum 3 shares required to recover key"
         /\ call.value = <<>> )

\* Two shares of a split were handed to recoverKey and it threw.
C25_Witness ==
    /\ call.fn = "recoverKey"
    /\ Len(call.args) = 2
    /\ ~call.ok
    /\ shares[call.args[1]].data # shares[call.args[2]].data

\* What the holder of the shares numbered in held sees of each split of the
\* key bytes: all the splits of the key, restricted to held.
Helds == {I \in SUBSET (1..NUM_SHARES) : Cardinality(I) < THRESHOLD}
SplitViews == {<<bytes, held, [i \in held |-> splitKeyWith(encodeBase64(bytes), rnd)[i]]>> : bytes \in KeyBytes, held \in Helds, rnd \in [1..1 -> Coefficients]}

C27_PayloadRoundTripFailsClosed ==
    call.fn = "decryptPayload"
    => IF call.args.blob = encryptedBlob /\ call.args.key = aesKey
         THEN call.ok /\ call.value = secretNote
         ELSE /\ ~call.ok
              /\ call.error = "Decryption failed - invalid key or corrupted data"
              /\ call.value = <<>>

\* The two-byte note came back under the key it was encrypted with.
C27_Witness ==
    /\ call.fn = "decryptPayload"
    /\ call.args.blob = encryptedBlob
    /\ call.args.key = aesKey
    /\ call.ok
    /\ call.value = <<2, 1>>
    /\ secretNote = <<2, 1>>

\* C28: decryptShareAsHeir(encryptShareForHeir(S, pub), sec) returns S for a
\* matched keypair; with the secret key of another keypair, or on an altered
\* package, it throws and returns no share.
C28_ShareRoundTripFailsClosed ==
    call.fn = "decryptShareAsHeir"
    => IF call.args.package = encryptedShare /\ call.args.secretKey = heirKeyPair.secretKey
         THEN call.ok /\ call.value = plainShare
         ELSE /\ ~call.ok
              /\ call.error = "Failed to decrypt share - invalid key or corrupted data"
              /\ call.value = <<>>

\* The secret key of another keypair was tried on an unaltered package and
\* the call threw.
C28_Witness ==
    /\ call.fn = "decryptShareAsHeir"
    /\ call.args.package = encryptedShare
    /\ call.args.secretKey # heirKeyPair.secretKey
    /\ ~call.ok
    /\ plainShare = <<2, 3>>

\* C30: on a payload of createLegacyPayload, claimLegacy with the heir share,
\* the matching secret key and the blob returns the secret, both with the
\* public share and all three wrapped shares, and with no public share and
\* only two of the three wrapped shares.
C30_ClaimLegacyRecoversSecret ==
    ( /\ call.fn = "claimLegacy"
      /\ call.args.corrupted = 0
      /\ \/ call.args.withWalrus /\ Len(call.args.wrapped) = 3
         \/ ~call.args.withWalrus /\ Len(call.args.wrapped) = 2 )
    => ( call.ok /\ call.value = secretNote )

\* Without the public share, wrapped shares 3 and 2 (in that order) and the
\* heir share gave the two-byte secret back.
C30_Witness ==
    /\ call.fn = "claimLegacy"
    /\ ~call.args.withWalrus
    /\ call.args.wrapped = <<3, 2>>
    /\ call.ok
    /\ call.value = <<2, 1>>
    /\ secretNote = <<2, 1>>

\* A string that is one of the shares of the key, as splitKey returned it.
RawShares == {shares[i] : i \in 1..Len(shares)}

\* C29: in the creation flow share 1 goes only to the heir, share 2 only to
\* blob storage, and shares 3, 4, 5, each wrapped for the heir's public key,
\* to the vault: the vault gets exactly 3 entries, none a raw share, and the
\* heir, the blob store and the vault each hold at most one unwrapped share.
C29_SharesDistributedByCustody ==
    /\ page.heirShare # <<>> => page.heirShare = <<shares[1]>>
    /\ page.walrus \cap RawShares \subseteq {shares[i] : i \in {2} \cap (1..Len(shares))}
    /\ page.vault # <<>> =>
        /\ Len(page.vault) = 3
        /\ \A i \in 1..3 :
            /\ page.vault[i] \notin RawShares
            /\ LET package == JSON_parse(page.vault[i])
                   ciphertext == decodeBase64(package.ciphertext)
               IN /\ ciphertext.sealed = shares[i + 2]
                  /\ decodeBase64(heirKeyPair.publicKey).pub \in ciphertext.under
    /\ Cardinality({page.heirShare[i] : i \in 1..Len(page.heirShare)} \cap RawShares) <= 1
    /\ Cardinality(page.walrus \cap RawShares) <= 1
    /\ Cardinality({page.vault[i] : i \in 1..Len(page.vault)} \cap RawShares) <= 1

\* The flow has run to its end: the blob store holds share 2, the vault the
\* three wrapped shares, and the page shows share 1.
C29_Witness ==
    /\ page.step = "share"
    /\ shares[2] \in page.walrus
    /\ Len(page.vault) = 3
    /\ page.heirShare = <<shares[1]>>

\* C32: update_unlock_time by the owner overwrites only unlock_duration and
\* update_beneficiary only beneficiary; nothing else on the ledger changes,
\* and a claim by the beneficiary succeeds exactly when
\* now > last_heartbeat + unlock_duration for the stored last_heartbeat.
C32_UpdatesOverwriteOneField ==
    [][ /\ Calls("update_unlock_time")
           => \A s \in Managers, d \in NewDurations :
                ( s = vault.owner /\ update_unlock_time(s, d) )
                => ( /\ last'.result = "ok"
                     /\ vault' = [vault EXCEPT !.unlock_time_ms = d]
                     /\ UNCHANGED <<now, status, events, received, deposited>> )
        /\ Calls("update_beneficiary")
           => \A s \in Managers, b \in NewHeirs :
                ( s = vault.owner /\ update_beneficiary(s, b) )
                => ( /\ last'.result = "ok"
                     /\ vault' = [vault EXCEPT !.beneficiary = b]
                     /\ UNCHANGED <<now, status, events, received, deposited>> )
        /\ ( Calls("claim_legacy") /\ last'.sender = vault.beneficiary )
           => ( last'.result = "ok"
                <=> now > vault.last_heartbeat + vault.unlock_time_ms )
      ]_vars

\* A vault created at time 0 that could never be claimed was given duration
\* 0 by its owner and claimed at time 1, its last_heartbeat still 0.
C32_Witness ==
    /\ status = "shared"
    /\ Succeeded("claim_legacy")
    /\ events[1].unlock_time_ms = MAX_U64
    /\ vault.unlock_time_ms = 0
    /\ vault.last_heartbeat = 0
    /\ now = 1

\* C35: the coins deposited by create_vault and add_funds equal the balance
\* of the vault plus the coins paid out by claim_legacy and cancel_legacy.
C35_FundsConserved ==
    deposited = vault.balance + received["A"] + received["B"] + received["C"]

\* One coin was claimed by the beneficiary, a second was added and came
\* back to the owner in the cancellation.
C35_Witness ==
    /\ status = "deleted"
    /\ deposited = 2
    /\ received["B"] = 1
    /\ received["A"] = 1
    /\ Claimed /\ Cancelled

\* C36: for every vault on the ledger last_heartbeat + unlock_time_ms fits
\* in a u64, and no call ends in an arithmetic abort.
C36_UnlockSumFitsU64 ==
    /\ status = "shared" => vault.last_heartbeat + vault.unlock_time_ms <= MAX_U64
    /\ last.result # "arithmetic"

\* C37: when time_until_claim has returned 0, or the pages' canClaim /
\* isExpired flag computed at the ledger time is set, a claim_legacy by the
\* beneficiary at that time succeeds.
C37_ZeroRemainingMeansClaimable ==
    [][ ( /\ Calls("claim_legacy")
          /\ last'.sender = vault.beneficiary
          /\ \/ last.op = "time_until_claim" /\ last.result = "ok" /\ last.ret_u64 = 0
             \/ canClaimFlag(vault.last_heartbeat, vault.unlock_time_ms, now) )
        => last'.result = "ok"
      ]_vars

\* The step is a successful heartbeat, update or cancel by the owner.
OwnerActs ==
    /\ status = "shared"
    /\ last'.op \in {"im_alive", "update_beneficiary", "update_unlock_time", "cancel_legacy"}
    /\ last'.result = "ok"

\* C39: if from some point on the owner performs no heartbeat, update or
\* cancel while the clock keeps advancing, then from some point on the vault
\* is claimable: the guard of claim_legacy passes at the clock time.
C39_AbandonedVaultBecomesClaimable ==
    ( <>[][~OwnerActs]_vars )
        => <>[]( status = "shared"
                 => ( /\ vault.last_heartbeat + vault.unlock_time_ms <= MAX_U64
                      /\ now > vault.last_heartbeat + vault.unlock_time_ms ) )

\* C33: claimLegacy given the heir share, the public share and the three
\* wrapped shares, one of which is corrupted and cannot be unwrapped, still
\* returns the secret.
C33_OneCorruptedShareTolerated ==
    ( /\ call.fn = "claimLegacy"
      /\ call.args.withWalrus
      /\ Len(call.args.wrapped) = 3
      /\ call.args.corrupted # 0 )
    => ( call.ok /\ call.value = secretNote )

\* C38: whatever payloads its arguments come from, claimLegacy returns the
\* secret that was encrypted in the blob it was given, or throws.
C38_ClaimLegacyFailsClosed ==
    call.fn = "claimLegacy"
    => \/ ~call.ok
       \/ call.value = ( IF call.args.encryptedBlob = "own" THEN secretNote ELSE OtherNote )

\* Every share and the secret key belong to the payload, the blob to the
\* other one, encrypted under another key: the call threw.
C38_Witness ==
    /\ call.fn = "claimLegacy"
    /\ call.args = [heirShare |-> "own", walrusShare |-> "own", contractShares |-> "own",
                    secretKey |-> "own", encryptedBlob |-> "other"]
    /\ ~call.ok
    /\ call.error = "Decryption failed - invalid key or corrupted data"

\* C31: in the browser where handleCreate has persisted the demo keypair of
\* the heir, handleReconstruct run with the secret-key field left empty
\* takes the stored demo secret key of the heir as its secret key, and the
\* unwrapping of the vault's shares does not fail.
C31_StoredDemoSecretUnwraps ==
    (/\ call.fn = "handleReconstruct"
     /\ claimPage.heirSecretKey = <<>>
     /\ getItem(page.localStorage, "heritage_demo_secret") = <<heirKeyPair.secretKey>>)
    => /\ secretKeyOf(claimPage.heirSecretKey, claimPage.storedDemoSecret, claimPage.demoKeyPair) = heirKeyPair.secretKey
       /\ claimPage.error # "Failed to decrypt shares. Invalid secret key."

\* C34: the step of the claim page becomes 'claiming' only from 'found' and
\* 'reconstruct' only from 'claiming' once the claim transaction has
\* resolved; when the claim transaction is rejected the step is 'found'
\* again and an error is set; the step becomes 'success' only from
\* 'reconstruct', and then the three locked shares unwrap under the secret
\* key in use, the key is recovered from the heir's share and the first two
\* of them, and the blob decrypts under it to the secret the page shows.
C34_ClaimStepsInOrder ==
    [][/\ (claimPage'.step = "claiming" /\ claimPage.step # "claiming") => claimPage.step = "found"
       /\ (claimPage'.step = "reconstruct" /\ claimPage.step # "reconstruct")
            => (claimPage.step = "claiming" /\ claimPage'.claimTx = "resolved")
       /\ (claimPage.step = "claiming" /\ claimPage'.claimTx = "rejected")
            => (claimPage'.step = "found" /\ claimPage'.error # "")
       /\ (claimPage'.step = "success" /\ claimPage.step # "success")
            => /\ claimPage.step = "reconstruct"
               /\ claimPage.heirShare # <<>>
               /\ LET secretKey == decodeBase64(secretKeyOf(claimPage.heirSecretKey, claimPage.storedDemoSecret, claimPage.demoKeyPair))
                      lockedShares == claimPage.vaultInfo[1].lockedShares
                      unwrapped == [i \in 1..3 |-> decryptShareAsHeirOf(lockedShares[i], secretKey)]
                  IN /\ \A i \in 1..3 : unwrapped[i].ok
                     /\ LET recovered == recoverKeyOf(<<claimPage.heirShare[1], unwrapped[1].value, unwrapped[2].value>>)
                        IN /\ recovered.ok
                           /\ decryptPayloadOf(encryptedBlob, recovered.value).ok
                           /\ claimPage'.decryptedSecret = decryptPayloadOf(encryptedBlob, recovered.value).value]_vars

\* C34 witness: the claim transaction has resolved and the page shows the
\* secret note in step 'success'.
C34_Witness ==
    /\ claimPage.step = "success"
    /\ claimPage.claimTx = "resolved"
    /\ claimPage.decryptedSecret = secretNote

====
